---- MODULE Spec2Model ----
(***************************************************************************)
(* A model of the Game Boy core of emulato-rs: the memory bus with its I/O *)
(* registers and the OAM DMA state machine (game_boy/memory.rs), the       *)
(* hardware timer (game_boy/timer.rs), the cartridge and its memory        *)
(* controllers (game_boy/cartridge.rs), the interrupt protocol and the CPU *)
(* step (game_boy/cpu.rs), and one system step (game_boy/mod.rs).          *)
(*                                                                         *)
(* Numbers are written in hexadecimal (\hFF46) where the source does so.   *)
(* The 64 KiB memory array is held as the pairs of its non-zero bytes      *)
(* only: the array starts as all zeroes, so an absent address reads 0.     *)
(* A Rust panic (unimplemented!, panic!, index out of bounds) ends the     *)
(* program: the variable `panicked` records it and no action is enabled    *)
(* afterwards.  u8 and u16 arithmetic wraps (% 2^8, % 2^16).               *)
(***************************************************************************)
EXTENDS Integers, Sequences, FiniteSets, TLC

VARIABLES
    memory,        \* MemoryBus.memory : the Memory struct
    dma_transfer,  \* MemoryBus.dma_transfer : Option<OamDmaTransfer>
    cpu,           \* GameBoy.cpu : the CPU struct
    panicked,      \* TRUE once the program has aborted with a panic
    gb,            \* position inside GameBoy::step and the cycles it carries
    last,          \* the last operation performed, with its arguments
    dma_watch,     \* observer of the transfer started by the last 0xFF46 write
    reload,        \* observer of a TIMA overflow: "none", "due" or "done"
    ticks,         \* number of operations performed so far (bounded)
    overflow_checks \* the build panics on integer overflow (debug profile)

vars == <<memory, dma_transfer, cpu, panicked, gb, last, dma_watch, reload,
          ticks, overflow_checks>>

(***************************************************************************)
(* Bits of bytes and words.                                                *)
(***************************************************************************)
Bit(x, k) == (x \div (2^k)) % 2

BitAnd(x, y) ==
    LET b(k) == Bit(x, k) * Bit(y, k) * (2^k)
    IN  b(0) + b(1) + b(2) + b(3) + b(4) + b(5) + b(6) + b(7)

BitOr(x, y) ==
    LET b(k) == (IF Bit(x, k) = 1 \/ Bit(y, k) = 1 THEN 1 ELSE 0) * (2^k)
    IN  b(0) + b(1) + b(2) + b(3) + b(4) + b(5) + b(6) + b(7)

BitNot(x) == 255 - x

\* u8::trailing_zeros of a non-zero byte
trailing_zeros(x) == CHOOSE k \in 0..7 : Bit(x, k) = 1 /\ \A j \in 0..(k-1) : Bit(x, j) = 0

\* x as u16 after an addition or subtraction on u16 that wraps
Wrap16(x) == (x + 65536) % 65536

\* The u16 sum or difference x panics: x is out of range and the build checks
\* integer overflow (`+`, `-`, `+=`, `-=`; not wrapping_add, overflowing_add).
Overflows16(x) == overflow_checks /\ (x < 0 \/ x > 65535)

\* The same for a sum of i16.
OverflowsI16(x) == overflow_checks /\ (x < -32768 \/ x > 32767)

(***************************************************************************)
(* The memory array [u8; 0x10000].                                         *)
(***************************************************************************)
\* An array is held as the set of <<address, byte>> pairs of its non-zero
\* bytes; an address without a pair holds 0.
ArrayGet(arr, a) ==
    IF \E p \in arr : p[1] = a
    THEN (CHOOSE p \in arr : p[1] = a)[2]
    ELSE 0

ArraySet(arr, a, v) ==
    LET rest == {p \in arr : p[1] # a}
    IN  IF v = 0 THEN rest ELSE rest \cup {<<a, v>>}

\* The value a read operator yields when the read panics.
Panic == -1

(***************************************************************************)
(* Timer (timer.rs).                                                       *)
(***************************************************************************)
TimerDefault ==
    [ clock |-> 0,
      timer_counter |-> 0,
      timer_trigger |-> 2^9,
      timer_trigger_bit |-> FALSE,
      timer_overflow_scheduled |-> FALSE,
      timer |-> 0,
      modulo |-> 0,
      control |-> \hF8,
      stopped |-> FALSE ]

is_timer_enabled(t) == Bit(t.control, 2) = 1

\* A variant that taps bit 4 for TAC clock select 1.
get_timer_trigger_bit_wrong_tap(t) ==
    CASE t.control % 4 = 0 -> 2^9
      [] t.control % 4 = 1 -> 2^4
      [] t.control % 4 = 2 -> 2^5
      [] t.control % 4 = 3 -> 2^7

get_timer_trigger_bit(t) ==
    CASE t.control % 4 = 0 -> 2^9
      [] t.control % 4 = 1 -> 2^3
      [] t.control % 4 = 2 -> 2^5
      [] t.control % 4 = 3 -> 2^7

\* Result: [t |-> the timer afterwards, interrupt |-> the returned bool]
update_timer(t) ==
    LET new_timer_trigger_bit ==
            is_timer_enabled(t) /\ (t.clock \div t.timer_trigger) % 2 = 1
        falling == t.timer_trigger_bit /\ ~new_timer_trigger_bit
        overflow == t.timer = 255
        t1 == IF falling
              THEN [t EXCEPT
                      !.timer = IF t.timer_overflow_scheduled
                                THEN t.modulo
                                ELSE (t.timer + 1) % 256,
                      !.timer_overflow_scheduled = overflow]
              ELSE IF t.timer_overflow_scheduled
              THEN [t EXCEPT !.timer_overflow_scheduled = FALSE,
                             !.timer = t.modulo]
              ELSE t
    IN  [ t |-> [t1 EXCEPT !.timer_trigger_bit = new_timer_trigger_bit],
          interrupt |-> t.timer_overflow_scheduled ]

\* The loop of Timer::step: `interrupt |= self.update_timer()` per 4 cycles.
RECURSIVE TimerLoop(_, _, _)
TimerLoopUpdated(u, cycles, interrupt) ==
    IF u.interrupt
    THEN TimerLoop(u.t, cycles - 4, TRUE)
    ELSE TimerLoop(u.t, cycles - 4, interrupt)

TimerLoopResumed(r, cycles) ==
    IF r.interrupt
    THEN TimerLoop(r.t, cycles, TRUE)
    ELSE TimerLoop(r.t, cycles, FALSE)

TimerLoop(t, cycles, interrupt) ==
    IF cycles <= 0
    THEN [t |-> t, interrupt |-> interrupt]
    ELSE IF cycles > 256
    THEN \* a long loop is run as two consecutive runs of the same loop
         TimerLoopResumed(TimerLoop(t, 256, interrupt), cycles - 256)
    ELSE IF cycles > 32
    THEN TimerLoopResumed(TimerLoop(t, 32, interrupt), cycles - 32)
    ELSE TimerLoopUpdated(
             update_timer([t EXCEPT !.clock = Wrap16(t.clock + 4)]),
             cycles, interrupt)

Timer_step(t, cycles) ==
    IF t.stopped
    THEN [t |-> t, interrupt |-> FALSE]
    ELSE TimerLoop(t, cycles, FALSE)

\* A variant that leaves the counter running.
reset_divider_keeps_clock(t) == update_timer([t EXCEPT !.timer_counter = 0])

\* A variant that always selects tap bit 7.
set_control_fields_tap7(t, value) ==
    LET c == [t EXCEPT !.control = BitOr(value, \hF8)]
    IN  [c EXCEPT !.timer_trigger = 2^7]

\* A variant that returns bits 9..2 of the counter.
get_divider_low_bits(t) == (t.clock \div 4) % 256

get_divider(t) == t.clock \div 256

reset_divider(t) == update_timer([t EXCEPT !.clock = 0, !.timer_counter = 0])

set_timer(t, value) == update_timer([t EXCEPT !.timer = value])

set_modulo(t, value) == [t EXCEPT !.modulo = value]

set_control_fields(t, value) ==
    LET c == [t EXCEPT !.control = BitOr(value, \hF8)]
    IN  [c EXCEPT !.timer_trigger = get_timer_trigger_bit(c)]

set_control(t, value) == update_timer(set_control_fields(t, value))

(***************************************************************************)
(* Boot ROM (boot_rom.rs) and cartridge without controller (cartridge.rs). *)
(***************************************************************************)
fast_boot_rom ==
    [a \in 0..255 |->
        CASE a = \h00 -> \h31   \* LD SP, 0xFFFE
          [] a = \h01 -> \hFE
          [] a = \h02 -> \hFF
          [] a = \h03 -> \hC3   \* JP 0x00FC
          [] a = \h04 -> \hFC
          [] a = \h05 -> \h00
          [] a = \hFC -> \h3E   \* LD A, 0x01
          [] a = \hFD -> \h01
          [] a = \hFE -> \hE0   \* LD (0x50), A
          [] a = \hFF -> \h50
          [] OTHER -> 0]

\* The program at 0x0150 of the cartridge ROM.
\*   "irq": sets SP, IE and IF, executes EI or DI and halts.
\*   "dma": copies LDH (0x46),A; JR -4 to 0xFF80, loads the page 0xC1 into
\*          A and jumps to 0xFF80: OAM DMA restarted from high RAM for ever.
\*   "lyc": writes rom.lyc to LYC, then rom.stat to STAT over and over.
\*   "timer": sets SP and IE, writes rom.tima to TIMA and rom.tac to TAC,
\*          executes EI or DI and halts.
Program(rom) ==
    CASE rom.entry = "dma" ->
            << \h3E, \hE0, \hE0, \h80,     \* LD A,0xE0; LDH (0x80),A
               \h3E, \h46, \hE0, \h81,     \* LD A,0x46; LDH (0x81),A
               \h3E, \h18, \hE0, \h82,     \* LD A,0x18; LDH (0x82),A
               \h3E, \hFC, \hE0, \h83,     \* LD A,0xFC; LDH (0x83),A
               \h3E, \hC1,                 \* LD A,0xC1
               \hC3, \h80, \hFF >>         \* JP 0xFF80
      [] rom.entry = "lyc" ->
            << \h3E, rom.lyc, \hE0, \h45,  \* LD A,lyc;  LDH (0x45),A
               \h3E, rom.stat,              \* LD A,stat
               \hE0, \h41,                 \* LDH (0x41),A
               \h18, \hFC >>               \* JR -4
      [] rom.entry = "irq" ->
            << \h31, rom.sp % 256, rom.sp \div 256,   \* LD SP, rom.sp
               \h3E, rom.ie, \hE0, \hFF,   \* LD A,ie;   LDH (0xFF),A
               \h3E, rom.if, \hE0, \h0F,   \* LD A,if;   LDH (0x0F),A
               rom.ei,                      \* EI or DI
               \h76,                        \* HALT
               \h00,                        \* NOP
               \h18, \hFC >>               \* JR -4 (to the HALT)
      [] rom.entry = "timer" ->
            << \h31, rom.sp % 256, rom.sp \div 256,   \* LD SP, rom.sp
               \h3E, rom.ie, \hE0, \hFF,   \* LD A,ie;   LDH (0xFF),A
               \h3E, rom.tima, \hE0, \h05, \* LD A,tima; LDH (0x05),A
               \h3E, rom.tac, \hE0, \h07,  \* LD A,tac;  LDH (0x07),A
               rom.ei,                      \* EI or DI
               \h76,                        \* HALT
               \h00,                        \* NOP
               \h18, \hFC >>               \* JR -4 (to the HALT)
      [] OTHER -> << >>

\* Byte 0 of bank n of a "banked" image: every bank starts with its own tag.
BankTag(n) == n + 1

\* The cartridge ROM: a 32 KiB image of type 0x00 (ROM only, no RAM).  rom
\* holds what the program in it is: "loop" is LD A,0x42; JR -2 at the entry
\* point; the others jump to the program at 0x0150.
RomImage(rom, a) ==
    CASE a = \h0040 -> \hD9   \* VBlank vector: RETI
      [] a = \h0048 -> \hFB   \* STAT vector:   EI
      [] a = \h0049 -> \h76   \*                HALT
      [] a = \h0050 -> \h00   \* Timer vector:  NOP
      [] a = \h0051 -> \hD9   \*                RETI
      [] a = \h0058 -> \hF3   \* Serial vector: DI
      [] a = \h0059 -> \h76   \*                HALT
      [] a = \h0060 -> \h76   \* Joypad vector: HALT
      [] a = \h0100 -> IF rom.entry = "loop" THEN \h3E ELSE \hC3
                                \* LD A, 0x42     or JP 0x0150
      [] a = \h0101 -> IF rom.entry = "loop" THEN \h42 ELSE \h50
      [] a = \h0102 -> IF rom.entry = "loop" THEN \h18 ELSE \h01
                                \* JR -2
      [] a = \h0103 -> IF rom.entry = "loop" THEN \hFE ELSE \h00
      [] a >= \h0150 /\ a < \h0150 + Len(Program(rom))
                    -> Program(rom)[a - \h0150 + 1]
      [] a >= \h4000 /\ a <= \h7FFF /\ rom.entry # "banked" -> (a % 255) + 1
      [] rom.entry = "banked" /\ a % \h4000 = 0 -> BankTag(a \div \h4000)
      [] OTHER -> 0

\* rom.len(): two banks of 16 KiB, or the banks the header of a "banked"
\* image declares.
RomLen(rom) ==
    IF rom.entry = "banked" THEN rom.num_rom_banks * \h4000 ELSE \h8000

LoopRom == [entry |-> "loop", sp |-> \hFFFE, ie |-> 0, if |-> 0, ei |-> \hF3]

NoControllerCartridge(rom) ==
    [ memory_controller |-> "NoController", ram_len |-> 0, rom |-> rom ]

\* Cartridge::load_from_file for a ROM-only image that declares one 8 KiB
\* bank of RAM (cartridge type 0x08, RAM size code 0x02).
RamCartridge(rom) ==
    [ memory_controller |-> "NoController", ram_len |-> 8192, rom |-> rom ]

\* A variant of the RAM-enable test that takes any value with bit 1 set.
enables_ram_on_bit1(value) == Bit(value, 1) = 1

\* value & 0x0F == 0x0A
enables_ram(value) == value % 16 = \h0A

\* A variant that masks nothing.
RomBankMask_all_ones(r) == 255

\* (num_rom_banks - 1) as u8
RomBankMask(r) == (r.num_rom_banks - 1) % 256

\* MBC1::from_cartridge_rom, MBC2/MBC3/MBC5::from_cartridge_header
MBC_new(rom) ==
    [ rom0_bank |-> 0, rom_bank |-> 1, ram_bank |-> 0,
      num_rom_banks |-> rom.num_rom_banks,
      num_ram_banks |-> rom.num_ram_banks,
      banking_mode |-> 0,            \* MBC1BankingMode::Simple
      ram_enabled |-> FALSE,
      is_multi_cart |-> FALSE ]

\* Cartridge::load_from_file for an image whose header names a controller:
\* 512 bytes of RAM for MBC2, num_ram_banks * 8 KiB otherwise.  ram holds the
\* non-zero bytes of the RAM as <<index, byte>> pairs.
ControllerCartridge(rom) ==
    [ memory_controller |-> rom.controller,
      ram_len |-> IF rom.controller = "MBC2" THEN 512
                  ELSE rom.num_ram_banks * 8 * 1024,
      rom |-> rom,
      ram |-> {},
      mbc |-> MBC_new(rom) ]

\* rom[index]
RomIndex(rom, index) ==
    IF index < RomLen(rom) THEN RomImage(rom, index) ELSE Panic

\* MBC1::rom0_bank_offset, rom_bank_offset
rom0_bank_offset(r) == \h4000 * r.rom0_bank

\* A variant that always selects bank 1.
rom_bank_offset_first_bank(r) == \h4000

rom_bank_offset(r) == \h4000 * r.rom_bank

\* ram_bank_offset of MBC1, MBC2, MBC3 and MBC5
ram_bank_offset(controller, r) ==
    CASE controller = "MBC1" ->
            IF r.banking_mode = 1 THEN \h2000 * r.ram_bank ELSE 0
      [] controller = "MBC2" -> 0
      [] OTHER -> \h2000 * r.ram_bank

\* A variant without the mirroring of the 512 bytes of MBC2.
RamOffset_unmirrored(c, address) ==
    address - \hA000 + ram_bank_offset(c.memory_controller, c.mbc)

\* The index into the RAM vector that an address of 0xA000-0xBFFF selects.
RamOffset(c, address) ==
    IF c.memory_controller = "MBC2" THEN address % 512
    ELSE address - \hA000 + ram_bank_offset(c.memory_controller, c.mbc)

\* MemoryControllerRegisters::ram_read8 and its override in MBC2
Controller_ram_read8(c, address) ==
    IF ~c.mbc.ram_enabled THEN \hFF
    ELSE IF RamOffset(c, address) >= c.ram_len THEN Panic
    ELSE IF c.memory_controller = "MBC2"
         THEN BitOr(ArrayGet(c.ram, RamOffset(c, address)), \hF0)
         ELSE ArrayGet(c.ram, RamOffset(c, address))

\* MemoryControllerRegisters::ram_write8 and its override in MBC2.
\* Result: [c |-> cartridge, panic |-> bool]
Controller_ram_write8(c, address, value) ==
    IF ~c.mbc.ram_enabled THEN [c |-> c, panic |-> FALSE]
    ELSE IF RamOffset(c, address) >= c.ram_len THEN [c |-> c, panic |-> TRUE]
    ELSE [ c |-> [c EXCEPT !.ram =
                    ArraySet(@, RamOffset(c, address),
                             IF c.memory_controller = "MBC2"
                             THEN value % 16 ELSE value)],
           panic |-> FALSE ]

\* Result of the register writes: [r |-> registers, panic |-> bool]
Registers(r) == [r |-> r, panic |-> FALSE]

RegistersPanic(r) == [r |-> r, panic |-> TRUE]

\* bank of a ROM Bank Number write: the low `bits` bits, 0 becomes 1
BankNumber(value, bits) ==
    IF value % (2^bits) = 0 THEN 1 ELSE value % (2^bits)

\* The 0x4000-0x5FFF register of MBC1 (is_multi_cart: 4 bits, else 5).
MBC1_upper_bits(r, value) ==
    LET v == value % 4
        num_rom_bits == IF r.is_multi_cart THEN 4 ELSE 5
        rom_bank_mask == IF r.is_multi_cart THEN \h0F ELSE \h1F
        new_bank == BitAnd((v * (2^num_rom_bits)) % 256, RomBankMask(r))
    IN  IF r.banking_mode = 0 THEN
            [r EXCEPT !.rom_bank = BitOr(BitAnd(@, rom_bank_mask), new_bank)]
        ELSE IF r.num_ram_banks > 1 THEN
            [r EXCEPT !.ram_bank = BitAnd(v, (r.num_ram_banks - 1) % 256)]
        ELSE IF r.num_rom_banks >= 64 THEN
            [r EXCEPT !.rom_bank = BitOr(BitAnd(@, rom_bank_mask), new_bank),
                      !.rom0_bank = new_bank]
        ELSE r

MBC1_register_write8(r, address, value) ==
    IF address <= \h1FFF THEN
        Registers([r EXCEPT !.ram_enabled = enables_ram(value)])
    ELSE IF address <= \h3FFF THEN
        Registers([r EXCEPT !.rom_bank =
            BitOr(BitAnd(@, \hE0),
                  BitAnd(BankNumber(value, 5), RomBankMask(r)))])
    ELSE IF address <= \h5FFF THEN Registers(MBC1_upper_bits(r, value))
    ELSE IF value > 1 THEN RegistersPanic(r)   \* Unknown MBC1 banking mode
    ELSE Registers([r EXCEPT !.banking_mode = value,
                             !.rom0_bank = IF value = 0 THEN 0 ELSE @])

MBC2_register_write8(r, address, value) ==
    IF address <= \h3FFF THEN
        IF Bit(address, 8) = 0
        THEN Registers([r EXCEPT !.ram_enabled = enables_ram(value)])
        ELSE Registers([r EXCEPT !.rom_bank =
                          BitAnd(BankNumber(value, 4), RomBankMask(r))])
    ELSE Registers(r)

MBC3_register_write8(r, address, value) ==
    IF address <= \h1FFF THEN
        Registers([r EXCEPT !.ram_enabled = enables_ram(value)])
    ELSE IF address <= \h3FFF THEN
        Registers([r EXCEPT !.rom_bank =
                     BitAnd(BankNumber(value, 7), RomBankMask(r))])
    ELSE IF address <= \h5FFF THEN
        IF value <= 3 THEN Registers([r EXCEPT !.ram_bank = value])
        ELSE RegistersPanic(r)       \* RTC register, or unexpected value
    ELSE RegistersPanic(r)           \* Latching clock data: unimplemented!

\* rom_bank is a u16 here; x & (num_rom_banks - 1) is x % num_rom_banks,
\* num_rom_banks being a power of two.
MBC5_register_write8(r, address, value) ==
    IF address <= \h1FFF THEN
        Registers([r EXCEPT !.ram_enabled = enables_ram(value)])
    ELSE IF address <= \h2FFF THEN
        Registers([r EXCEPT !.rom_bank =
                     (@ \div 256) * 256 + (value % r.num_rom_banks)])
    ELSE IF address <= \h3FFF THEN
        Registers([r EXCEPT !.rom_bank =
                     (@ % 256) + (((value % 2) * 256) % r.num_rom_banks)])
    ELSE IF address <= \h5FFF THEN
        Registers([r EXCEPT !.ram_bank = value % 16])
    ELSE RegistersPanic(r)           \* unreachable!

\* MemoryController::register_write8
Controller_register_write8(controller, r, address, value) ==
    CASE controller = "MBC1" -> MBC1_register_write8(r, address, value)
      [] controller = "MBC2" -> MBC2_register_write8(r, address, value)
      [] controller = "MBC3" -> MBC3_register_write8(r, address, value)
      [] controller = "MBC5" -> MBC5_register_write8(r, address, value)

RegistersWritten(c, w) == [c |-> [c EXCEPT !.mbc = w.r], panic |-> w.panic]

\* MemoryController::rom0_read8 / romx_read8
rom0_read8(c, address) ==
    IF c.memory_controller = "MBC1"
    THEN RomIndex(c.rom, address + rom0_bank_offset(c.mbc))
    ELSE RomIndex(c.rom, address)

romx_read8(c, address) ==
    IF c.memory_controller = "NoController"
    THEN RomIndex(c.rom, address)
    ELSE RomIndex(c.rom, address - \h4000 + rom_bank_offset(c.mbc))

\* MemoryController::ram_read8.  NoController: ram[address], an index into
\* a vector of num_ram_banks * 8 KiB bytes (empty for RAM size code 0) that
\* nothing ever writes.
ram_read8(c, address) ==
    IF c.memory_controller = "NoController"
    THEN IF address < c.ram_len THEN 0 ELSE Panic
    ELSE Controller_ram_read8(c, address)

Cartridge_read8(c, address) ==
    IF address <= \h3FFF THEN rom0_read8(c, address)
    ELSE IF address <= \h7FFF THEN romx_read8(c, address)
    ELSE IF address >= \hA000 /\ address <= \hBFFF THEN ram_read8(c, address)
    ELSE Panic

\* Cartridge::write8.  For NoController register_write8 and ram_write8 are
\* both unimplemented!().  Result: [c |-> cartridge, panic |-> bool]
Cartridge_write8(c, address, value) ==
    IF c.memory_controller = "NoController" THEN [c |-> c, panic |-> TRUE]
    ELSE IF address <= \h7FFF THEN
        RegistersWritten(c, Controller_register_write8(c.memory_controller,
                                                       c.mbc, address, value))
    ELSE Controller_ram_write8(c, address, value)

(***************************************************************************)
(* Memory (memory.rs): address decode, I/O registers, interrupts.          *)
(***************************************************************************)
Remap_identity(address) == address

\* ECHO: the index of 0xE000-0xFDFF in the array is that of 0xC000-0xDDFF.
Remap(address) == address - \hE000 + \hC000

MemoryNew(cartridge) ==
    [ memory |-> { <<\hFF00, \hCF>>, <<\hFF0F, \hE0>>, <<\hFF41, \h80>> },
      cartridge |-> cartridge,
      boot_rom |-> TRUE,          \* Some(boot_rom)
      joypad |-> 0,
      timer |-> TimerDefault ]

Memory_read8(m, address) ==
    IF address <= \h00FF THEN
        IF m.boot_rom THEN fast_boot_rom[address]
        ELSE rom0_read8(m.cartridge, address)
    ELSE IF address <= \h7FFF \/ (address >= \hA000 /\ address <= \hBFFF) THEN
        Cartridge_read8(m.cartridge, address)
    ELSE IF address <= \h9FFF THEN ArrayGet(m.memory, address)        \* VRAM
    ELSE IF address <= \hDFFF THEN ArrayGet(m.memory, address)        \* WRAM
    ELSE IF address <= \hFDFF THEN
        ArrayGet(m.memory, Remap(address))                            \* ECHO
    ELSE IF address <= \hFE9F THEN ArrayGet(m.memory, address)        \* OAM
    ELSE IF address <= \hFEFF THEN Panic                              \* UNUSED
    ELSE IF address = \hFF00 THEN ArrayGet(m.memory, address)
    ELSE IF address <= \hFF03 THEN Panic
    ELSE IF address = \hFF04 THEN get_divider(m.timer)
    ELSE IF address = \hFF05 THEN m.timer.timer
    ELSE IF address = \hFF06 THEN m.timer.modulo
    ELSE IF address = \hFF07 THEN m.timer.control
    ELSE IF address <= \hFF0E THEN Panic
    ELSE IF address = \hFF0F THEN ArrayGet(m.memory, address)
    ELSE IF address <= \hFF26 THEN 0                                  \* Sound
    ELSE IF address <= \hFF2F THEN Panic
    ELSE IF address <= \hFF3F THEN 0                                  \* Wave RAM
    ELSE IF address <= \hFF4B THEN
        IF \hFF47 <= address /\ address <= \hFF49 THEN Panic
        ELSE ArrayGet(m.memory, address)
    ELSE IF address <= \hFF7F THEN Panic
    ELSE ArrayGet(m.memory, address)                                  \* HRAM, IE

RequestInterrupt(m, mask) ==
    [m EXCEPT !.memory =
        ArraySet(m.memory, \hFF0F, BitOr(ArrayGet(m.memory, \hFF0F), mask))]

\* Result: [m |-> memory afterwards, interrupt |-> the returned bool]
update_joypad_register(m) ==
    LET joypad_register == ArrayGet(m.memory, \hFF00)
        direction == IF Bit(joypad_register, 4) = 0 THEN m.joypad % 16 ELSE 0
        action == IF Bit(joypad_register, 5) = 0 THEN m.joypad \div 16 ELSE 0
        joypad == BitOr(direction, action)
        reg == (joypad_register - (joypad_register % 16))
               + (BitNot(joypad) % 16)
        m1 == [m EXCEPT !.memory = ArraySet(m.memory, \hFF00, reg)]
        raised == BitAnd(joypad_register % 16, joypad) # 0
    IN  [ m |-> IF raised THEN RequestInterrupt(m1, \h10) ELSE m1,
          interrupt |-> raised ]

set_key_presses(m, presses) ==
    update_joypad_register([m EXCEPT !.joypad = presses])

\* Stores into the array and into the timer, as Memory::write8 does per
\* address.  Result: [m |-> memory afterwards, panic |-> bool]
Store(m, address, value) ==
    [ m |-> [m EXCEPT !.memory = ArraySet(m.memory, address, value)],
      panic |-> FALSE ]

TimerWrite(m, r) ==
    LET m1 == [m EXCEPT !.timer = r.t]
    IN  [ m |-> IF r.interrupt THEN RequestInterrupt(m1, 4) ELSE m1,
          panic |-> FALSE ]

disable_boot_rom_keeps_overlay(m) == m

disable_boot_rom(m) == [m EXCEPT !.boot_rom = FALSE]

Memory_write8(m, address, value) ==
    IF address <= \h7FFF \/ (address >= \hA000 /\ address <= \hBFFF) THEN
        LET r == Cartridge_write8(m.cartridge, address, value)
        IN  [m |-> [m EXCEPT !.cartridge = r.c], panic |-> r.panic]
    ELSE IF address <= \hDFFF THEN Store(m, address, value)      \* VRAM, WRAM
    ELSE IF address <= \hFDFF THEN
        Store(m, Remap(address), value)                          \* ECHO
    ELSE IF address <= \hFE9F THEN Store(m, address, value)      \* OAM
    ELSE IF address <= \hFEFF THEN [m |-> m, panic |-> FALSE]    \* UNUSED
    ELSE IF address = \hFF00 THEN
        [ m |-> update_joypad_register(
                    Store(m, address, BitOr(\hC0, value)).m).m,
          panic |-> FALSE ]
    ELSE IF address = \hFF01 \/ address = \hFF02 THEN Store(m, address, value)
    ELSE IF address = \hFF04 THEN TimerWrite(m, reset_divider(m.timer))
    ELSE IF address = \hFF05 THEN TimerWrite(m, set_timer(m.timer, value))
    ELSE IF address = \hFF06 THEN
        [m |-> [m EXCEPT !.timer = set_modulo(m.timer, value)], panic |-> FALSE]
    ELSE IF address = \hFF07 THEN TimerWrite(m, set_control(m.timer, value))
    ELSE IF address = \hFF0F THEN Store(m, address, BitOr(\hE0, value))
    ELSE IF address >= \hFF10 /\ address <= \hFF26 THEN [m |-> m, panic |-> FALSE]
    ELSE IF address >= \hFF30 /\ address <= \hFF3F THEN [m |-> m, panic |-> FALSE]
    ELSE IF address = \hFF40 THEN Store(m, address, value)
    ELSE IF address = \hFF41 THEN
        Store(m, address,
              BitOr(BitAnd(ArrayGet(m.memory, address), \h87),
                    BitAnd(value, \hF8)))
    ELSE IF address = \hFF44 THEN [m |-> m, panic |-> TRUE]      \* LY is read-only
    ELSE IF address >= \hFF42 /\ address <= \hFF4B THEN Store(m, address, value)
    ELSE IF address = \hFF50 THEN
        Store(IF value % 2 = 1 THEN disable_boot_rom(m) ELSE m, address, value)
    ELSE IF address >= \hFF72 /\ address <= \hFF7F THEN [m |-> m, panic |-> FALSE]
    ELSE IF address <= \hFF7F THEN [m |-> m, panic |-> TRUE]     \* unimplemented!
    ELSE Store(m, address, value)                                \* HRAM, IE

get_requested_interrupts(m) ==
    LET requests == Memory_read8(m, \hFF0F)
        enabled_interrupts == Memory_read8(m, \hFFFF)
    IN  BitAnd(BitAnd(requests, enabled_interrupts), \h1F)

InterruptAddress(n) ==
    CASE n = 0 -> \h40      \* VBLANK
      [] n = 1 -> \h48      \* LCD_STAT
      [] n = 2 -> \h50      \* TIMER
      [] n = 3 -> \h58      \* SERIAL
      [] n = 4 -> \h60      \* JOYPAD

\* Result: [m |-> memory afterwards, some |-> an interrupt was taken,
\*          address |-> its vector]
TakeInterrupt(m, requests, next_interrupt) ==
    [ m |-> Memory_write8(m, \hFF0F, requests - 2^next_interrupt).m,
      some |-> TRUE,
      address |-> InterruptAddress(next_interrupt) ]

TakeNext(m, interrupts) ==
    IF interrupts = 0
    THEN [m |-> m, some |-> FALSE, address |-> 0]
    ELSE TakeInterrupt(m, Memory_read8(m, \hFF0F),
                       trailing_zeros(interrupts))

\* A variant that takes every pending interrupt at once.
Memory_handle_interrupts_takes_all(m) ==
    IF get_requested_interrupts(m) = 0
    THEN [m |-> m, some |-> FALSE, address |-> 0]
    ELSE [ m |-> Memory_write8(m, \hFF0F,
                     Memory_read8(m, \hFF0F) - get_requested_interrupts(m)).m,
           some |-> TRUE,
           address |-> InterruptAddress(
                           trailing_zeros(get_requested_interrupts(m))) ]

Memory_handle_interrupts(m) == TakeNext(m, get_requested_interrupts(m))

(***************************************************************************)
(* OamDmaTransfer and MemoryBus (memory.rs).                               *)
(***************************************************************************)
NoDma ==
    [ some |-> FALSE, address |-> 0, pre_transfer_countdown |-> 0,
      active_transfer |-> FALSE ]

OamDmaTransfer_new(upper_address, restarting) ==
    LET upper == IF upper_address >= \hE0
                 THEN upper_address - \hE0 + \hC0
                 ELSE upper_address
    IN  [ some |-> TRUE,
          address |-> upper * 256,
          pre_transfer_countdown |-> 3,
          active_transfer |-> restarting ]

is_active(dma) == dma.some /\ dma.active_transfer

\* Result: [dma, m, finished, panic]
Copied(dma, w, target) ==
    [ dma |-> [dma EXCEPT !.address = @ + 1],
      m |-> w.m,
      finished |-> target >= \hFE9F,
      panic |-> w.panic ]

CopyByte(dma, m, value, target) ==
    IF value = Panic
    THEN [dma |-> dma, m |-> m, finished |-> FALSE, panic |-> TRUE]
    ELSE Copied(dma, Memory_write8(m, target, value), target)

OamDmaTransfer_step(dma, m) ==
    IF dma.pre_transfer_countdown > 0
    THEN [ dma |-> [dma EXCEPT
                      !.pre_transfer_countdown = @ - 1,
                      !.active_transfer =
                          IF dma.pre_transfer_countdown = 1 THEN TRUE ELSE @],
           m |-> m, finished |-> FALSE, panic |-> FALSE ]
    ELSE CopyByte(dma, m, Memory_read8(m, dma.address),
                  \hFE00 + (dma.address % 256))

\* A bus: [memory, dma_transfer, panic]
MemoryBus_read8(b, address) ==
    IF is_active(b.dma_transfer) /\ address < \hFF80 /\ address # \hFF46
    THEN \hFF
    ELSE Memory_read8(b.memory, address)

\* The bus after Memory::write8 returned w
Written(b, w) == [b EXCEPT !.memory = w.m, !.panic = w.panic]

MemoryBus_write8(b, address, value) ==
    IF b.panic THEN b
    ELSE IF address = \hFF46 THEN
        [Written(b, Memory_write8(b.memory, address, value)) EXCEPT
            !.dma_transfer = OamDmaTransfer_new(value, b.dma_transfer.some)]
    ELSE IF ~is_active(b.dma_transfer) \/ address >= \hFF80 THEN
        Written(b, Memory_write8(b.memory, address, value))
    ELSE b

\* lo as u16 + (hi as u16) << 8
Word(lo, hi, overflow) ==
    IF lo = Panic \/ overflow \/ hi = Panic THEN Panic ELSE lo + 256 * hi

\* address+1 is a u16 addition
MemoryBus_read16(b, address) ==
    Word(MemoryBus_read8(b, address),
         MemoryBus_read8(b, Wrap16(address + 1)),
         Overflows16(address + 1))

WriteHigh(b1, address, value) ==
    IF Overflows16(address + 1) THEN [b1 EXCEPT !.panic = TRUE]
    ELSE MemoryBus_write8(b1, Wrap16(address + 1), value \div 256)

MemoryBus_write16(b, address, value) ==
    WriteHigh(MemoryBus_write8(b, address, value % 256), address, value)

\* The loop `for _ in (0..cycles).step_by(4)` over the DMA steps.
RECURSIVE DmaLoop(_, _)
DmaStepped(b, r, n) ==
    IF r.panic THEN [b EXCEPT !.panic = TRUE]
    ELSE IF r.finished
    THEN [b EXCEPT !.memory = r.m, !.dma_transfer = NoDma]
    ELSE DmaLoop([b EXCEPT !.memory = r.m, !.dma_transfer = r.dma], n - 1)

DmaLoop(b, n) ==
    IF n = 0 \/ b.panic \/ ~b.dma_transfer.some THEN b
    ELSE IF n > 64
    THEN \* a long loop is run as two consecutive runs of the same loop;
         \* the second does nothing once the transfer has been taken
         DmaLoop(DmaLoop(b, 64), n - 64)
    ELSE IF n > 8 THEN DmaLoop(DmaLoop(b, 8), n - 8)
    ELSE DmaStepped(b, OamDmaTransfer_step(b.dma_transfer, b.memory), n)

\* The timer part of MemoryBus::step; r is what Timer::step returned.
TimerStepped(b1, r) ==
    IF r.interrupt
    THEN [b1 EXCEPT !.memory = RequestInterrupt([@ EXCEPT !.timer = r.t], 4)]
    ELSE [b1 EXCEPT !.memory.timer = r.t]

AfterDma(b1, cycles) ==
    IF b1.panic THEN b1
    ELSE TimerStepped(b1, Timer_step(b1.memory.timer, cycles))

MemoryBus_step(b, cycles) ==
    AfterDma(IF b.dma_transfer.some
             THEN DmaLoop(b, (cycles + 3) \div 4)
             ELSE b,
             cycles)

(***************************************************************************)
(* CPU (cpu.rs).  The instructions modelled are the ones the boot stub and *)
(* the ROM image use: NOP, LD A,d8, LD SP,d16, JR e, JP nn, LDH (a8),A,    *)
(* LDH A,(a8), RST n, RETI, DI, EI and HALT, and ADC A,r, SBC A,r,         *)
(* ADD A,d8, DAA, PUSH AF and POP AF.  Any other decodable opcode is "Other": a program   *)
(* that reaches one is outside the model.                                  *)
(***************************************************************************)
CPU_new ==
    [ a |-> 0, f |-> 0, b |-> 0, c |-> 0, d |-> 0, e |-> 0, h |-> 0, l |-> 0,
      sp |-> \hFFFE, pc |-> 0, ime |-> FALSE, halt |-> FALSE ]

\* Opcodes Instruction::from_byte_nonprefixed maps to None.
Undecodable ==
    { \h10, \hD3, \hDB, \hDD, \hE3, \hE4, \hEB, \hEC, \hED, \hF4, \hFC, \hFD }

from_byte(instruction_byte) ==
    CASE instruction_byte = \h00 -> "NOP"
      [] instruction_byte = \h3E -> "LD_A_D8"
      [] instruction_byte = \h31 -> "LD_SP_D16"
      [] instruction_byte = \h18 -> "JR"
      [] instruction_byte = \hC3 -> "JP"
      [] instruction_byte = \hE0 -> "LDH_FromA"
      [] instruction_byte = \hF0 -> "LDH_ToA"
      [] instruction_byte \in {\hC7, \hCF, \hD7, \hDF, \hE7, \hEF, \hF7, \hFF}
            -> "RST"
      [] instruction_byte = \hD9 -> "RETI"
      [] instruction_byte = \hF3 -> "DI"
      [] instruction_byte = \hFB -> "EI"
      [] instruction_byte = \h76 -> "HALT"
      [] instruction_byte >= \h88 /\ instruction_byte <= \h8F -> "ADC"
      [] instruction_byte >= \h98 /\ instruction_byte <= \h9F -> "SBC"
      [] instruction_byte = \hF5 -> "PUSH_AF"
      [] instruction_byte = \hF1 -> "POP_AF"
      [] instruction_byte = \h27 -> "DAA"
      [] instruction_byte = \hC6 -> "ADD_D8"
      [] instruction_byte \in Undecodable -> "None"
      [] OTHER -> "Other"

\* e as i8 as i16
Signed8(e) == IF e >= 128 THEN e - 256 ELSE e

\* Result of the CPU operations: [cpu, bus, cycles]; a panic is bus.panic.
Res(c, b, cycles) == [cpu |-> c, bus |-> b, cycles |-> cycles]

Abort(c, b) == Res(c, [b EXCEPT !.panic = TRUE], 0)

push(c, b, value) ==
    LET sp == Wrap16(c.sp - 2)
    IN  IF Overflows16(c.sp - 2) THEN Abort(c, b)
        ELSE Res([c EXCEPT !.sp = sp], MemoryBus_write16(b, sp, value), 0)

\* Result: [cpu, value]; the value is Panic when the pop panics.
pop(c, b) ==
    [ cpu |-> [c EXCEPT !.sp = Wrap16(c.sp + 2)],
      value |-> IF Overflows16(c.sp + 2) THEN Panic
                ELSE MemoryBus_read16(b, c.sp) ]

\* A jump that takes the offset as unsigned.
JumpRelative_unsigned(pc, e) == Wrap16(pc + e)

\* self.pc as i16 + e as i16, as u16
JumpRelative(pc, e) ==
    Wrap16((IF pc >= 32768 THEN pc - 65536 ELSE pc) + Signed8(e))

\* The result r of a push, with the jump that follows it.
Jump(r, address, cycles) ==
    Res([r.cpu EXCEPT !.pc = address], r.bus, cycles)

LoadA(c, b, value, pc) ==
    IF value = Panic THEN Abort(c, b)
    ELSE Res([c EXCEPT !.pc = pc, !.a = value], b, 12)

Return(c, b, r) ==
    IF r.value = Panic THEN Abort(c, b)
    ELSE Res([r.cpu EXCEPT !.pc = r.value, !.ime = TRUE], b, 16)

\* enum Flag
Flag_Zero == 128

Flag_Subtract == 64

Flag_HalfCarry == 32

Flag_Carry == 16

\* Registers::read16(AF)
read16_AF(c) == c.a * 256 + c.f

\* A variant that stores the low byte in F as it is.
write16_AF_unmasked(c, value) ==
    [c EXCEPT !.a = value \div 256, !.f = value % 256]

\* Registers::write16(AF, value)
write16_AF(c, value) ==
    [c EXCEPT !.a = value \div 256, !.f = ((value % 256) \div 16) * 16]

\* CPU::load_arithmetic_operand for the operand field v of the opcode
\* (ArithmeticOperand::from): a register, or the byte at HL.
load_arithmetic_operand(c, b, v) ==
    CASE v = 0 -> c.b
      [] v = 1 -> c.c
      [] v = 2 -> c.d
      [] v = 3 -> c.e
      [] v = 4 -> c.h
      [] v = 5 -> c.l
      [] v = 6 -> MemoryBus_read8(b, c.h * 256 + c.l)
      [] v = 7 -> c.a

\* The flags byte built from the three tests and the subtract flag.
Flags(new_a, subtract, half_carry, carry) ==
    (IF new_a = 0 THEN Flag_Zero ELSE 0)
    + (IF subtract THEN Flag_Subtract ELSE 0)
    + (IF half_carry THEN Flag_HalfCarry ELSE 0)
    + (IF carry THEN Flag_Carry ELSE 0)

\* u8::overflowing_add and u8::overflowing_sub: [v, o]
overflowing_add(x, y) == [v |-> (x + y) % 256, o |-> x + y > 255]

overflowing_sub(x, y) == [v |-> (x - y + 256) % 256, o |-> x < y]

\* The ADC arm after the operand was loaded: [a, f]
AdcSum(a, operand, old_carry, s1) ==
    LET s2 == overflowing_add(s1.v, 1)
        new_a == IF old_carry THEN s2.v ELSE s1.v
        carry == IF old_carry THEN s1.o \/ s2.o ELSE s1.o
        half_carry ==
            (a % 16) + (operand % 16) + (IF old_carry THEN 1 ELSE 0) > 15
    IN  [a |-> new_a, f |-> Flags(new_a, FALSE, half_carry, carry)]

\* A variant that clears the carry flag when the carry-in is set.
adc_drops_carry(a, operand, old_carry) ==
    AdcSum(a, operand, old_carry,
           [overflowing_add(a, operand) EXCEPT !.o = @ /\ ~old_carry])

adc(a, operand, old_carry) ==
    AdcSum(a, operand, old_carry, overflowing_add(a, operand))

\* The SBC arm after the operand was loaded: [a, f]
SbcDifference(a, operand, old_carry, s1, h1) ==
    LET s2 == overflowing_sub(s1.v, 1)
        h2 == overflowing_sub(h1.v, 1)
        new_a == IF old_carry THEN s2.v ELSE s1.v
        carry == IF old_carry THEN s1.o \/ s2.o ELSE s1.o
        half_carry == IF old_carry THEN h1.o \/ h2.o ELSE h1.o
    IN  [a |-> new_a, f |-> Flags(new_a, TRUE, half_carry, carry)]

sbc(a, operand, old_carry) ==
    SbcDifference(a, operand, old_carry, overflowing_sub(a, operand),
                  overflowing_sub(a % 16, operand % 16))

\* The ADC and SBC arms: r is [a, f] as computed from the loaded operand.
Arithmetic(c, b, operand, r, cycles) ==
    IF operand = Panic \/ Overflows16(c.pc + 1) THEN Abort(c, b)
    ELSE Res([c EXCEPT !.pc = Wrap16(c.pc + 1), !.a = r.a, !.f = r.f],
             b, cycles)

Adc(c, b, operand) ==
    Arithmetic(c, b, operand,
               adc(c.a, operand, (c.f \div Flag_Carry) % 2 = 1), 8)

Sbc(c, b, operand, cycles) ==
    Arithmetic(c, b, operand,
               sbc(c.a, operand, (c.f \div Flag_Carry) % 2 = 1), cycles)

\* impl FetchCycles for ArithmeticOperand
OperandCycles(v) == IF v = 6 THEN 4 ELSE 0

\* The PUSH arm: the push, 16 cycles.
Pushed(r) == Res(r.cpu, r.bus, IF r.bus.panic THEN 0 ELSE 16)

\* The POP AF arm: r is what pop returned.
PoppedAF(c, b, r) ==
    IF r.value = Panic THEN Abort(c, b)
    ELSE Res(write16_AF(r.cpu, r.value), b, 12)

\* The ADD arm after the operand was loaded: [a, f]
add(a, operand) ==
    LET s1 == overflowing_add(a, operand)
    IN  [ a |-> s1.v,
          f |-> Flags(s1.v, FALSE, (a % 16) + (operand % 16) > 15, s1.o) ]

\* The DAA arm: [a, f].  half_carry is the test of the H flag.
DaaAdjusted(a, f, new_a, adjustment) ==
    [ a |-> new_a,
      f |-> BitOr(BitOr(BitAnd(f, Flag_Subtract),
                        IF new_a = 0 THEN Flag_Zero ELSE 0),
                  IF BitAnd(adjustment, \h60) # 0 THEN Flag_Carry ELSE 0) ]

DaaResult(a, f, half_carry) ==
    LET adjustment ==
            BitOr(IF half_carry THEN \h06 ELSE 0,
                  IF BitAnd(f, Flag_Carry) # 0 THEN \h60 ELSE 0)
        added ==
            BitOr(BitOr(adjustment, IF a % 16 > \h09 THEN \h06 ELSE 0),
                  IF a > \h99 THEN \h60 ELSE 0)
    IN  IF BitAnd(f, Flag_Subtract) # 0
        THEN DaaAdjusted(a, f, overflowing_sub(a, adjustment).v, adjustment)
        ELSE DaaAdjusted(a, f, overflowing_add(a, added).v, added)

\* A variant that does not look at the H flag.
daa_ignores_half_carry(a, f) == DaaResult(a, f, FALSE)

daa(a, f) == DaaResult(a, f, BitAnd(f, Flag_HalfCarry) # 0)

\* The arms that leave their result in A and F.
SetAF(c, b, pc, r, cycles) ==
    Res([c EXCEPT !.pc = pc, !.a = r.a, !.f = r.f], b, cycles)

\* CPU::execute; d8 and d16 are the operand bytes that follow the opcode.
Execute(c, b, instruction, instruction_byte, d8, d16) ==
    LET pc1 == Wrap16(c.pc + 1)
        pc2 == Wrap16(c.pc + 2)
        pc3 == Wrap16(c.pc + 3)
    IN  CASE instruction = "NOP" ->
                IF Overflows16(c.pc + 1) THEN Abort(c, b)
                ELSE Res([c EXCEPT !.pc = pc1], b, 4)
          [] instruction = "LD_A_D8" ->
                IF d8 = Panic \/ Overflows16(c.pc + 2) THEN Abort(c, b)
                ELSE Res([c EXCEPT !.pc = pc2, !.a = d8], b, 8)
          [] instruction = "LD_SP_D16" ->
                IF d16 = Panic \/ Overflows16(c.pc + 3) THEN Abort(c, b)
                ELSE Res([c EXCEPT !.pc = pc3, !.sp = d16], b, 12)
          [] instruction = "JP" ->
                IF d16 = Panic \/ Overflows16(c.pc + 3) THEN Abort(c, b)
                ELSE Res([c EXCEPT !.pc = d16], b, 16)
          [] instruction = "JR" ->
                IF \/ d8 = Panic
                   \/ Overflows16(c.pc + 2)
                   \/ OverflowsI16((IF pc2 >= 32768 THEN pc2 - 65536 ELSE pc2)
                                      + Signed8(d8))
                THEN Abort(c, b)
                ELSE Res([c EXCEPT !.pc = JumpRelative(pc2, d8)], b, 12)
          [] instruction = "LDH_FromA" ->
                IF d8 = Panic \/ Overflows16(c.pc + 2) THEN Abort(c, b)
                ELSE Res([c EXCEPT !.pc = pc2],
                         MemoryBus_write8(b, \hFF00 + d8, c.a), 12)
          [] instruction = "LDH_ToA" ->
                IF d8 = Panic \/ Overflows16(c.pc + 2) THEN Abort(c, b)
                ELSE LoadA(c, b, MemoryBus_read8(b, \hFF00 + d8), pc2)
          [] instruction = "RST" ->
                IF Overflows16(c.pc + 1) THEN Abort(c, b)
                ELSE Jump(push([c EXCEPT !.pc = pc1], b, pc1),
                          BitAnd(instruction_byte, \h38), 16)
          [] instruction = "RETI" -> Return(c, b, pop(c, b))
          [] instruction = "DI" ->
                IF Overflows16(c.pc + 1) THEN Abort(c, b)
                ELSE Res([c EXCEPT !.pc = pc1, !.ime = FALSE], b, 4)
          [] instruction = "EI" ->
                IF Overflows16(c.pc + 1) THEN Abort(c, b)
                ELSE Res([c EXCEPT !.pc = pc1, !.ime = TRUE], b, 4)
          [] instruction = "HALT" ->
                IF Overflows16(c.pc + 1) THEN Abort(c, b)
                ELSE Res([c EXCEPT !.pc = pc1, !.halt = TRUE], b, 4)
          [] instruction = "ADC" ->
                Adc(c, b, load_arithmetic_operand(c, b, instruction_byte % 8))
          [] instruction = "SBC" ->
                Sbc(c, b, load_arithmetic_operand(c, b, instruction_byte % 8),
                    OperandCycles(instruction_byte % 8) + 4)
          [] instruction = "DAA" ->
                IF Overflows16(c.pc + 1) THEN Abort(c, b)
                ELSE SetAF(c, b, pc1, daa(c.a, c.f), 4)
          [] instruction = "ADD_D8" ->
                IF d8 = Panic \/ Overflows16(c.pc + 2) THEN Abort(c, b)
                ELSE SetAF(c, b, pc2, add(c.a, d8), 8)
          [] instruction = "PUSH_AF" ->
                IF Overflows16(c.pc + 1) THEN Abort(c, b)
                ELSE Pushed(push([c EXCEPT !.pc = pc1], b, read16_AF(c)))
          [] instruction = "POP_AF" ->
                IF Overflows16(c.pc + 1) THEN Abort(c, b)
                ELSE PoppedAF(c, b, pop([c EXCEPT !.pc = pc1], b))

execute(c, b, instruction, instruction_byte) ==
    Execute(c, b, instruction, instruction_byte,
            MemoryBus_read8(b, Wrap16(c.pc + 1)),
            MemoryBus_read16(b, Wrap16(c.pc + 1)))

\* A variant in which a halted CPU still advances PC.
HaltedStep_advances(c, b) == Res([c EXCEPT !.pc = Wrap16(c.pc + 1)], b, 4)

\* A variant in which a halted step takes no time.
HaltedStep_no_cycles(c, b) == Res(c, b, 0)

HaltedStep(c, b) == Res(c, b, 4)

Decoded(c, b, instruction_byte) ==
    IF instruction_byte = Panic \/ from_byte(instruction_byte) = "None"
    THEN Abort(c, b)
    ELSE execute(c, b, from_byte(instruction_byte), instruction_byte)

CPU_step(c, b) ==
    IF c.halt THEN HaltedStep(c, b)
    ELSE Decoded(c, b, MemoryBus_read8(b, c.pc))

\* A variant that leaves IME set on interrupt entry.
call_interrupt_keeps_ime(c, b, interrupt) ==
    Jump(push(c, b, c.pc), interrupt, 0)

call_interrupt(c, b, interrupt) ==
    Jump(push([c EXCEPT !.ime = FALSE], b, c.pc), interrupt, 0)

\* A variant in which only a serviceable interrupt ends HALT.
WakeUp_needs_ime(c, b) ==
    IF c.halt /\ c.ime /\ get_requested_interrupts(b.memory) # 0
    THEN FALSE ELSE c.halt

\* The halt flag after the first statement of CPU::handle_interrupts.
WakeUp(c, b) ==
    IF c.halt /\ get_requested_interrupts(b.memory) # 0 THEN FALSE ELSE c.halt

\* Result: [cpu, bus, serviced]
Serviced(r) == [cpu |-> r.cpu, bus |-> r.bus, serviced |-> TRUE]

NotServiced(c, b) == [cpu |-> c, bus |-> b, serviced |-> FALSE]

Service(c, b, h) ==
    IF h.some
    THEN Serviced(call_interrupt(c, [b EXCEPT !.memory = h.m], h.address))
    ELSE NotServiced(c, b)

HandleAwake(c, b) ==
    IF ~c.ime THEN NotServiced(c, b)
    ELSE Service(c, b, Memory_handle_interrupts(b.memory))

CPU_handle_interrupts(c, b) == HandleAwake([c EXCEPT !.halt = WakeUp(c, b)], b)

(***************************************************************************)
(* Bounds of the model.                                                    *)
(***************************************************************************)
MaxBusOps == 4       \* operations on the bus in SpecBus
MaxTimerOps == 7     \* operations on the timer registers in SpecTimer
MaxSteps == 60       \* operations of the system loop in Spec
MaxKeyEvents == 1    \* polls of the keys in Spec
MaxCpuOps == 2       \* CPU steps in SpecCpu
MaxIoOps == 3        \* bus reads and writes in SpecIo
MaxFrames == 1       \* frames run to their end in SpecFrame
MaxBootFrames == 10  \* frames run to their end in SpecBoot
MaxSetup == 3        \* M-cycles between the setup writes in SpecTap
MaxWait == 300       \* M-cycles of busy-waiting in SpecTap
MaxGap == 130        \* M-cycles between two DIV writes in SpecTap
MaxDivWrites == 256  \* writes to DIV in SpecTap
MaxCartOps == 5      \* bus reads and writes in SpecCart
MaxPadOps == 4       \* key samples and writes in SpecPad

(***************************************************************************)
(* Observers.  They read the state, never steer it.                        *)
(***************************************************************************)
Bus == [memory |-> memory, dma_transfer |-> dma_transfer, panic |-> panicked]

\* The tap of the 16-bit counter that TAC bits 1:0 select, and the signal
\* whose falling edge clocks TIMA.
Tap(control) ==
    CASE control % 4 = 0 -> 9
      [] control % 4 = 1 -> 3
      [] control % 4 = 2 -> 5
      [] control % 4 = 3 -> 7

Signal(t) == Bit(t.control, 2) = 1 /\ Bit(t.clock, Tap(t.control)) = 1

Fell(t, u) == Signal(t) /\ ~Signal(u)

\* After one timer update that took the timer from t to u: an overflow
\* (an increment from 0xFF on a falling edge) makes the reload due.
ReloadAfterWrite(g, t, u) == IF Fell(t, u) /\ t.timer = 255 THEN "due" ELSE g

\* One tick of the watch: s is [g, t], u the timer after the tick.
ReloadTicked(s, u) ==
    [ g |-> IF s.g = "due" THEN "done"
            ELSE IF Fell(s.t, u) /\ s.t.timer = 255 THEN "due"
            ELSE "none",
      t |-> u ]

RECURSIVE ReloadLoop(_, _)
ReloadLoop(s, n) ==
    IF n = 0 \/ s.t.stopped THEN s
    ELSE IF n > 64 THEN ReloadLoop(ReloadLoop(s, 64), n - 64)
    ELSE IF n > 8 THEN ReloadLoop(ReloadLoop(s, 8), n - 8)
    ELSE ReloadLoop(ReloadTicked(s, Timer_step(s.t, 4).t), n - 1)

ReloadAfterTicks(g, t, n) == ReloadLoop([g |-> g, t |-> t], n).g

Oam(arr) == {p \in arr : p[1] >= \hFE00 /\ p[1] <= \hFE9F}

NoWatch ==
    [page |-> 0, age |-> 0, clean |-> FALSE, restart |-> FALSE, oam |-> {}]

\* A write to 0xFF46 starts the watch: clean when no transfer was in progress,
\* a restart when one was; any other write ends the watch.
WatchAfterWrite(address, value) ==
    IF address = \hFF46
    THEN [page |-> value, age |-> 0, clean |-> ~dma_transfer.some,
          restart |-> dma_transfer.some, oam |-> Oam(memory.memory)]
    ELSE [dma_watch EXCEPT !.clean = FALSE, !.restart = FALSE]

WatchAfterStep(cycles) ==
    [dma_watch EXCEPT !.age = IF @ + (cycles \div 4) > 164 THEN 164
                              ELSE @ + (cycles \div 4)]

Op(op, address, value) == [op |-> op, address |-> address, value |-> value]

(***************************************************************************)
(* Operations on the bus, as the CPU and the system loop perform them.     *)
(***************************************************************************)
SetBus(b) ==
    /\ memory' = b.memory
    /\ dma_transfer' = b.dma_transfer
    /\ panicked' = b.panic

BusWrite(address, value, max) ==
    /\ ~panicked /\ ticks < max
    /\ SetBus(MemoryBus_write8(Bus, address, value))
    /\ reload' = IF address = \hFF05 /\ reload = "due" THEN "none"
                 ELSE ReloadAfterWrite(reload, memory.timer, memory'.timer)
    /\ last' = Op("write8", address, value)
    /\ dma_watch' = WatchAfterWrite(address, value)
    /\ ticks' = ticks + 1
    /\ UNCHANGED <<cpu, gb, overflow_checks>>

BusStep(cycles, max) ==
    /\ ~panicked /\ ticks < max
    /\ SetBus(MemoryBus_step(Bus, cycles))
    /\ reload' = ReloadAfterTicks(reload, memory.timer, cycles \div 4)
    /\ last' = Op("step", 0, cycles)
    /\ dma_watch' = WatchAfterStep(cycles)
    /\ ticks' = ticks + 1
    /\ UNCHANGED <<cpu, gb, overflow_checks>>

(***************************************************************************)
(* SpecBus: the bus under writes and stepping, from construction.          *)
(***************************************************************************)
\* The pages written to 0xFF46: ROM, VRAM, cartridge RAM, WRAM, ECHO.
DmaPages == { \h40, \h80, \hA0, \hC1, \hE1, \hFF }

BusWrites ==
    {<<\hFF46, u>> : u \in DmaPages}
    \cup { <<\hC100, \h5A>>, <<\hFE00, \h11>>, <<\hFF80, \h77>>,
           <<\hFFFF, \h1F>> }

BusStepCycles == { 4, 12, 640, 652 }

InitCommon ==
    /\ dma_transfer = NoDma
    /\ panicked = FALSE
    /\ gb = [pc |-> "cpu_step", cycles |-> 0, key_events |-> 0,
             fed |-> 0, reported |-> 0]
    /\ last = Op("new", 0, 0)
    /\ dma_watch = NoWatch
    /\ reload = "none"
    /\ ticks = 0

\* No operation of SpecBus or SpecTimer computes a sum that can overflow.
InitBus ==
    /\ overflow_checks = FALSE
    /\ memory = MemoryNew(NoControllerCartridge(LoopRom))
    /\ cpu = CPU_new
    /\ InitCommon

BusWriteOp == \E w \in BusWrites : BusWrite(w[1], w[2], MaxBusOps)

BusStepOp == \E cycles \in BusStepCycles : BusStep(cycles, MaxBusOps)

NextBus == BusWriteOp \/ BusStepOp

SpecBus == InitBus /\ [][NextBus]_vars

(***************************************************************************)
(* OAM DMA: blocking of the bus (C1) and the transfer itself (C2).         *)
(***************************************************************************)
HighRam(a) == a >= \hFF80 /\ a <= \hFFFE

\* The addresses a running transfer blocks, according to the contract.
Blocked(a) == ~HighRam(a) /\ a # \hFF46

\* Addresses probed by reads: ROM, VRAM, WRAM, OAM, IF, high RAM, IE.
Probes == { \h0000, \h4000, \h8000, \hC100, \hFE00, \hFF0F, \hFF46,
            \hFF80, \hFFFE, \hFFFF }

DmaBlocksReads(limit) ==
    is_active(dma_transfer) /\ ~panicked =>
        \A a \in Probes :
            IF Blocked(a) /\ a < limit
            THEN MemoryBus_read8(Bus, a) = \hFF
            ELSE MemoryBus_read8(Bus, a) = Memory_read8(memory, a)

DmaBlocksWrites(limit) ==
    is_active(dma_transfer) /\ ~panicked /\ last'.op = "write8" =>
        IF Blocked(last'.address) /\ last'.address < limit
        THEN memory' = memory /\ dma_transfer' = dma_transfer /\ ~panicked'
        ELSE Memory_read8(memory', last'.address) = last'.value

\* C1: while a transfer is active, a read8 outside 0xFF80-0xFFFE other than
\* 0xFF46 returns 0xFF and a write8 there changes no memory, timer or
\* cartridge state, for every such address including IE at 0xFFFF; high RAM
\* and 0xFF46 stay readable and writable.
C1_Blocking == [][DmaBlocksReads(65536) /\ DmaBlocksWrites(65536)]_vars

\* What the code does instead: the block ends below 0xFF80, so IE at 0xFFFF
\* is read and written through a running transfer like high RAM.
C1_BlockingBelowHighRam ==
    [][DmaBlocksReads(\hFF80) /\ DmaBlocksWrites(\hFF80)]_vars

C1_Witness ==
    /\ is_active(dma_transfer) /\ ~panicked
    /\ MemoryBus_read8(Bus, \hFFFF) = \h1F
    /\ MemoryBus_read8(Bus, \hC100) = \hFF
    /\ Memory_read8(memory, \hC100) = \h5A

\* The source address of byte i of the transfer the watch follows.
DmaSource(i) ==
    (IF dma_watch.page >= \hE0 THEN dma_watch.page - \h20 ELSE dma_watch.page)
        * 256 + i

\* Byte i is copied in M-cycle 4+i after the write, not before.
DmaCopiedSoFar ==
    \A i \in 0..159 :
        IF dma_watch.age >= 4 + i
        THEN ArrayGet(memory.memory, \hFE00 + i)
                 = Memory_read8(memory, DmaSource(i))
        ELSE ArrayGet(memory.memory, \hFE00 + i)
                 = ArrayGet(dma_watch.oam, \hFE00 + i)

DmaDone ==
    /\ \A i \in 0..159 :
           MemoryBus_read8(Bus, \hFE00 + i) = Memory_read8(memory, DmaSource(i))
    /\ ~dma_transfer.some
    /\ ~is_active(dma_transfer)

\* C2: for every byte U, from no transfer in progress, write8(0xFF46, U) and
\* bus stepping that totals 163 M-cycles in any split leave OAM byte i equal
\* to the byte at source S+i (S = U*0x100, or (U-0x20)*0x100 from 0xE0 on),
\* the transfer gone and the bus unblocked; byte i is not copied before
\* M-cycle 4+i.
C2_Transfer ==
    dma_watch.clean =>
        /\ ~panicked
        /\ DmaCopiedSoFar
        /\ (dma_watch.age = 163 => DmaDone)

\* The same for the pages whose source the cartridge can read: every page
\* but those of cartridge RAM (0xA0-0xBF) on a cartridge without RAM.
C2_TransferReadablePage ==
    dma_watch.clean /\ ~(dma_watch.page >= \hA0 /\ dma_watch.page <= \hBF) =>
        /\ ~panicked
        /\ DmaCopiedSoFar
        /\ (dma_watch.age = 163 => DmaDone)

C2_Witness ==
    /\ dma_watch.clean /\ dma_watch.age = 163 /\ dma_watch.page = \h40
    /\ last = Op("step", 0, 640)
    /\ ArrayGet(memory.memory, \hFE9F) = RomImage(LoopRom, \h409F)
    /\ ~dma_transfer.some

(***************************************************************************)
(* SpecTimer: the timer registers 0xFF04-0xFF07 under CPU writes and       *)
(* M-cycle ticks of the bus.                                               *)
(***************************************************************************)
\* Counter values the timer can hold when the program starts to use it:
\* tap bit 3 set; bits 9, 7, 5, 3 set and bit 3 about to fall; all bits set
\* and about to wrap.
InitClocks == { \h0008, \h02AC, \hFFFC }

TimerWrites ==
    { <<\hFF04, \h00>>, <<\hFF05, \hFF>>, <<\hFF06, \h23>> }
    \cup { <<\hFF07, v>> : v \in { \h00, \h04, \h05, \h06, \h07 } }

InitTimer ==
    /\ overflow_checks = FALSE
    /\ \E c \in InitClocks :
           memory = [MemoryNew(NoControllerCartridge(LoopRom))
                        EXCEPT !.timer.clock = c]
    /\ cpu = CPU_new
    /\ InitCommon

TimerWriteOp == \E w \in TimerWrites : BusWrite(w[1], w[2], MaxTimerOps)

TimerTick == BusStep(4, MaxTimerOps)

NextTimer == TimerWriteOp \/ TimerTick

SpecTimer == InitTimer /\ [][NextTimer]_vars

TIMA(m) == Memory_read8(m, \hFF05)

TMA(m) == Memory_read8(m, \hFF06)

TimerInterruptFlag(m) == Bit(Memory_read8(m, \hFF0F), 2)

\* The step now being taken is a timer update of the kind named.
Ticking == last'.op = "step" /\ last'.value = 4

Writing(address) == last'.op = "write8" /\ last'.address = address

SignalFalls == Fell(memory.timer, memory'.timer)

\* C3: on every timer update (M-cycle tick, DIV write, TAC write) at which
\* the signal (TAC bit 2 AND the tap bit, taps 9, 3, 5, 7) falls, TIMA
\* changes by exactly +1 mod 256; on an update at which it does not fall,
\* TIMA is not incremented (it keeps its value, or is reloaded from TMA when
\* a reload is scheduled).
C3_FallingEdge ==
    [][ Ticking \/ Writing(\hFF04) \/ Writing(\hFF07) =>
          IF SignalFalls
          THEN TIMA(memory') = (TIMA(memory) + 1) % 256
          ELSE \/ TIMA(memory') = TIMA(memory)
               \/ /\ memory.timer.timer_overflow_scheduled
                  /\ TIMA(memory') = TMA(memory) ]_vars

\* A DIV write while the tap bit is 1 has just incremented TIMA.
C3_Witness ==
    /\ last = Op("write8", \hFF04, 0)
    /\ memory.timer.control = \hFD
    /\ TIMA(memory) = 1
    /\ ~memory.timer.timer_overflow_scheduled

\* The update now being taken makes TIMA overflow: a falling edge at 0xFF.
Overflowing == SignalFalls /\ TIMA(memory) = \hFF

NoTimerInterruptRequested ==
    TimerInterruptFlag(memory') = TimerInterruptFlag(memory)

\* C4: when a falling edge increments TIMA from 0xFF, TIMA reads 0 and no
\* timer interrupt is requested during the M-cycle that follows; TIMA is
\* loaded with TMA and IF bit 2 is set exactly at the next M-cycle tick: not
\* in the update of the overflow, and not earlier through a DIV or TAC write
\* made in between.
C4_DelayedReload ==
    [][ /\ (Ticking \/ Writing(\hFF04) \/ Writing(\hFF07)) /\ Overflowing
           => TIMA(memory') = 0 /\ NoTimerInterruptRequested
        /\ reload = "due" /\ (Writing(\hFF04) \/ Writing(\hFF07))
           => /\ NoTimerInterruptRequested
              /\ TIMA(memory') = (IF SignalFalls THEN 1 ELSE 0)
        /\ reload = "due" /\ Ticking
           => /\ TIMA(memory') = TMA(memory)
              /\ TimerInterruptFlag(memory') = 1 ]_vars

\* What the code does: the reload and the interrupt wait for the next timer
\* update, whichever it is: a tick, or a write to DIV, TAC or TIMA.
C4_ReloadAtNextUpdate ==
    [][ /\ (Ticking \/ Writing(\hFF04) \/ Writing(\hFF07)) /\ Overflowing
           => TIMA(memory') = 0 /\ NoTimerInterruptRequested
        /\ memory.timer.timer_overflow_scheduled
             /\ (Ticking \/ Writing(\hFF04) \/ Writing(\hFF05)
                   \/ Writing(\hFF07))
           => /\ TIMA(memory') = TMA(memory)
              /\ TimerInterruptFlag(memory') = 1
              /\ ~memory'.timer.timer_overflow_scheduled ]_vars

\* C5: a write of V to TIMA during the M-cycle in which a reload is pending
\* cancels the reload: TIMA keeps V, is not overwritten with TMA, and no
\* timer interrupt is requested for that overflow.
C5_WriteCancelsReload ==
    [][ /\ reload = "due" /\ Writing(\hFF05)
           => /\ TIMA(memory') = last'.value
              /\ NoTimerInterruptRequested
              /\ ~memory'.timer.timer_overflow_scheduled
        /\ reload = "none" /\ Ticking /\ ~Overflowing
           => NoTimerInterruptRequested ]_vars

\* C6: a write of W to TMA during the M-cycle right after TIMA was reloaded
\* from TMA also puts W in TIMA.
C6_WriteReachesTima ==
    [][ reload = "done" /\ Writing(\hFF06)
           => TIMA(memory') = last'.value /\ TMA(memory') = last'.value ]_vars

\* What the code does: a TMA write changes TMA alone, at any time.
C6_WriteChangesTmaOnly ==
    [][ Writing(\hFF06)
           => /\ TMA(memory') = last'.value
              /\ TIMA(memory') = TIMA(memory)
              /\ NoTimerInterruptRequested ]_vars

(***************************************************************************)
(* Spec: the system from construction.  GameBoy::step is followed through  *)
(* its calls: CPU::step, MemoryBus::step, CPU::handle_interrupts and, when *)
(* an interrupt was serviced, MemoryBus::step(20); gb.pc is the call that  *)
(* comes next and gb.cycles the cycles of the step so far.  Between two    *)
(* steps the run loop may poll the keys (GameBoy::check_key_presses).      *)
(***************************************************************************)
StackPointers == { \hFFFE, \hD002 }

EnableMasks == { \h00, \h14, \h1F }

RequestMasks == { \h00, \h01, \h15, \h1F }

Roms ==
    {LoopRom} \cup
    [ entry : {"irq"}, sp : StackPointers, ie : EnableMasks,
      if : RequestMasks, ei : { \hFB, \hF3 } ] \cup
    [ entry : {"timer"}, sp : { \hD002 }, ie : { \h04 },
      tima : { \hFE, \hFF }, tac : { \h05 }, ei : { \hFB, \hF3 } ]

\* Keys held when the keys are polled: none, Right.
KeyPresses == { \h00, \h01 }

Init ==
    /\ overflow_checks \in BOOLEAN
    /\ \E rom \in Roms : memory = MemoryNew(NoControllerCartridge(rom))
    /\ cpu = CPU_new
    /\ InitCommon

\* The opcode CPU::step is about to fetch (0 for a halted CPU: no fetch).
Fetched == IF cpu.halt THEN 0 ELSE MemoryBus_read8(Bus, cpu.pc)

CpuStepped(r) ==
    /\ cpu' = r.cpu
    /\ SetBus(r.bus)
    /\ gb' = [gb EXCEPT !.pc = "bus_step", !.cycles = r.cycles]

CpuStep ==
    /\ gb.pc = "cpu_step" /\ ~panicked /\ ticks < MaxSteps
    /\ cpu.halt \/ Fetched = Panic \/ from_byte(Fetched) # "Other"
    /\ CpuStepped(CPU_step(cpu, Bus))
    /\ last' = Op("cpu_step", cpu.pc, Fetched)
    /\ ticks' = ticks + 1
    /\ UNCHANGED <<dma_watch, reload, overflow_checks>>

BusStepAfterCpu ==
    /\ gb.pc = "bus_step" /\ ~panicked /\ ticks < MaxSteps
    /\ SetBus(MemoryBus_step(Bus, gb.cycles))
    /\ gb' = [gb EXCEPT !.pc = "handle_interrupts", !.fed = @ + gb.cycles]
    /\ reload' = ReloadAfterTicks(reload, memory.timer, gb.cycles \div 4)
    /\ dma_watch' = WatchAfterStep(gb.cycles)
    /\ last' = Op("step", 0, gb.cycles)
    /\ ticks' = ticks + 1
    /\ UNCHANGED <<cpu, overflow_checks>>

\* A servicing whose 20 T-cycles are left out of the step's count.
Handled_uncounted(r) ==
    /\ cpu' = r.cpu
    /\ SetBus(r.bus)
    /\ gb' = IF r.serviced
             THEN [gb EXCEPT !.pc = "irq_bus_step"]
             ELSE [gb EXCEPT !.pc = "cpu_step", !.reported = @ + gb.cycles]

\* gb.fed is the sum of the cycles given to MemoryBus::step so far and
\* gb.reported the sum of the cycles the steps have returned.
Handled(r) ==
    /\ cpu' = r.cpu
    /\ SetBus(r.bus)
    /\ gb' = IF r.serviced
             THEN [gb EXCEPT !.pc = "irq_bus_step", !.cycles = @ + 20]
             ELSE [gb EXCEPT !.pc = "cpu_step", !.reported = @ + gb.cycles]

HandleInterrupts ==
    /\ gb.pc = "handle_interrupts" /\ ~panicked /\ ticks < MaxSteps
    /\ Handled(CPU_handle_interrupts(cpu, Bus))
    /\ last' = Op("handle_interrupts", 0, 0)
    /\ ticks' = ticks + 1
    /\ UNCHANGED <<dma_watch, reload, overflow_checks>>

IrqBusStep ==
    /\ gb.pc = "irq_bus_step" /\ ~panicked /\ ticks < MaxSteps
    /\ SetBus(MemoryBus_step(Bus, 20))
    /\ gb' = [gb EXCEPT !.pc = "cpu_step", !.fed = @ + 20,
                        !.reported = @ + gb.cycles]
    /\ reload' = ReloadAfterTicks(reload, memory.timer, 5)
    /\ dma_watch' = WatchAfterStep(20)
    /\ last' = Op("step", 0, 20)
    /\ ticks' = ticks + 1
    /\ UNCHANGED <<cpu, overflow_checks>>

\* GameBoy::check_key_presses: set_key_presses, and when that raised the
\* joypad interrupt, handle_interrupts, and when that serviced one,
\* MemoryBus::step(20).
KeysHandled(h) ==
    IF ~h.serviced \/ h.bus.panic THEN Res(h.cpu, h.bus, 0)
    ELSE Res(h.cpu, MemoryBus_step(h.bus, 20), 20)

KeysSet(c, b, k) ==
    IF ~k.interrupt THEN Res(c, [b EXCEPT !.memory = k.m], 0)
    ELSE KeysHandled(CPU_handle_interrupts(c, [b EXCEPT !.memory = k.m]))

check_key_presses(c, b, presses) ==
    KeysSet(c, b, set_key_presses(b.memory, presses))

KeysChecked(r) ==
    /\ cpu' = r.cpu
    /\ SetBus(r.bus)
    /\ gb' = [gb EXCEPT !.cycles = r.cycles, !.key_events = @ + 1,
                        !.fed = @ + r.cycles, !.reported = @ + r.cycles]

CheckKeyPresses ==
    /\ gb.pc = "cpu_step" /\ ~panicked /\ ticks < MaxSteps
    /\ gb.key_events < MaxKeyEvents
    /\ \E presses \in KeyPresses :
        /\ KeysChecked(check_key_presses(cpu, Bus, presses))
        /\ last' = Op("check_key_presses", 0, presses)
    /\ reload' = ReloadAfterTicks(reload, memory.timer, gb'.cycles \div 4)
    /\ dma_watch' = WatchAfterStep(gb'.cycles)
    /\ ticks' = ticks + 1
    /\ UNCHANGED overflow_checks

Next ==
    \/ CpuStep
    \/ BusStepAfterCpu
    \/ HandleInterrupts
    \/ IrqBusStep
    \/ CheckKeyPresses

Spec == Init /\ [][Next]_vars

(***************************************************************************)
(* Interrupts and HALT (C7-C10).                                           *)
(***************************************************************************)
InterruptFlags(m) == Memory_read8(m, \hFF0F)

InterruptEnable(m) == Memory_read8(m, \hFFFF)

\* Interrupt k (0 VBlank .. 4 Joypad) is requested and enabled in m.
IsPending(m, k) ==
    k < 5 /\ Bit(InterruptFlags(m), k) = 1 /\ Bit(InterruptEnable(m), k) = 1

AnyPending(m) == \E k \in 0..4 : IsPending(m, k)

\* The pending interrupt of highest priority: the lowest-numbered one.
FirstPending(m) ==
    CHOOSE k \in 0..4 : IsPending(m, k) /\ \A j \in 0..(k - 1) : ~IsPending(m, j)

\* IF of m with bit k cleared and every other bit kept.
FlagsWithout(m, k) ==
    InterruptFlags(m) - Bit(InterruptFlags(m), k) * 2^k

\* The step now being taken runs CPU::handle_interrupts: in GameBoy::step,
\* or in check_key_presses when the keys raised the joypad interrupt.
InStep == last'.op = "handle_interrupts"

InKeyPoll ==
    /\ last'.op = "check_key_presses"
    /\ set_key_presses(memory, last'.value).interrupt

HandlerRuns == InStep \/ InKeyPoll

\* The memory handle_interrupts finds.
HandlerMemory ==
    IF InKeyPoll THEN set_key_presses(memory, last'.value).m ELSE memory

ServicedNow ==
    /\ ~panicked'
    /\ ~cpu'.ime
    /\ cpu'.sp = cpu.sp - 2
    /\ Memory_read8(memory', cpu'.sp) = cpu.pc % 256
    /\ Memory_read8(memory', cpu'.sp + 1) = cpu.pc \div 256
    /\ cpu'.pc = \h40 + 8 * FirstPending(HandlerMemory)
    /\ InterruptFlags(memory')
           = FlagsWithout(HandlerMemory, FirstPending(HandlerMemory))
    /\ gb'.cycles = (IF InStep THEN gb.cycles + 20 ELSE 20)
    /\ InStep => gb'.pc = "irq_bus_step"

NotServicedNow ==
    /\ cpu'.pc = cpu.pc /\ cpu'.sp = cpu.sp /\ cpu'.ime = cpu.ime
    /\ InterruptFlags(memory') = InterruptFlags(HandlerMemory)
    /\ gb'.cycles = (IF InStep THEN gb.cycles ELSE 0)
    /\ InStep => gb'.pc = "cpu_step"

\* C7: CPU::handle_interrupts with IME set and IF & IE & 0x1F != 0 clears
\* IME, decreases SP by 2, stores the old PC little-endian at the new SP,
\* sets PC to the vector of the serviced interrupt, clears exactly that IF
\* bit and adds 20 T-cycles; with IME clear or nothing pending it leaves PC,
\* SP and IF unchanged and adds no cycles.  IME is set again only by EI or
\* RETI, so no second interrupt is serviced before one of them ran.
C7_Servicing ==
    [][ /\ HandlerRuns =>
               IF cpu.ime /\ AnyPending(HandlerMemory)
               THEN ServicedNow ELSE NotServicedNow
        /\ ~cpu.ime /\ cpu'.ime =>
               /\ last'.op = "cpu_step" /\ ~cpu.halt
               /\ last'.value \in { \hFB, \hD9 } ]_vars

\* The timer interrupt has been serviced with SP = 0xD002 from PC = 0x015C;
\* VBlank stays requested (it is not enabled) and Joypad stays pending.
C7_Witness ==
    /\ last.op = "handle_interrupts" /\ gb.pc = "irq_bus_step"
    /\ ~cpu.ime /\ cpu.pc = \h50 /\ cpu.sp = \hD000
    /\ MemoryBus_read16(Bus, \hD000) = \h015C
    /\ InterruptFlags(memory) = \hF1
    /\ gb.cycles = 24

\* C8: get_requested_interrupts is IF & IE & 0x1F; Memory::handle_interrupts
\* takes the lowest-numbered pending bit b: it clears bit b of IF alone
\* (requested-but-disabled bits and the upper three bits, which are 1, stay),
\* changes nothing else and returns the vector 0x40 + 8*b; with nothing
\* pending it returns nothing and changes nothing.
C8_TakeNext ==
    /\ \A k \in 0..7 :
           Bit(get_requested_interrupts(memory), k)
               = (IF IsPending(memory, k) THEN 1 ELSE 0)
    /\ IF AnyPending(memory)
       THEN /\ Memory_handle_interrupts(memory).some
            /\ Memory_handle_interrupts(memory).address
                   = \h40 + 8 * FirstPending(memory)
            /\ InterruptFlags(Memory_handle_interrupts(memory).m)
                   = FlagsWithout(memory, FirstPending(memory))
            /\ InterruptFlags(Memory_handle_interrupts(memory).m) >= \hE0
            /\ Memory_handle_interrupts(memory).m
                   = [memory EXCEPT !.memory =
                        ArraySet(@, \hFF0F,
                                 FlagsWithout(memory, FirstPending(memory)))]
       ELSE /\ ~Memory_handle_interrupts(memory).some
            /\ Memory_handle_interrupts(memory).m = memory

\* IF = 0xF5 and IE = 0x14 when the handler is about to run: Timer is taken,
\* VBlank (requested, not enabled) and Joypad stay.
C8_Witness ==
    /\ gb.pc = "handle_interrupts"
    /\ InterruptFlags(memory) = \hF5 /\ InterruptEnable(memory) = \h14
    /\ Memory_handle_interrupts(memory).address = \h50
    /\ InterruptFlags(Memory_handle_interrupts(memory).m) = \hF1

\* C9: HALT sets the halt flag (and nothing else does); interrupt handling
\* clears it exactly when IF & IE & 0x1F != 0, whether IME is set or not, and
\* with IME clear the CPU goes on at the instruction after HALT without
\* servicing; a halted CPU stays halted as long as nothing is pending.
C9_HaltMode ==
    [][ /\ last'.op = "cpu_step" /\ ~cpu.halt /\ last'.value = \h76
               => cpu'.halt /\ cpu'.pc = cpu.pc + 1
        /\ ~cpu.halt /\ cpu'.halt
               => last'.op = "cpu_step" /\ last'.value = \h76
        /\ HandlerRuns /\ cpu.halt
               => (cpu'.halt <=> ~AnyPending(HandlerMemory))
        /\ HandlerRuns /\ cpu.halt /\ ~cpu.ime /\ AnyPending(HandlerMemory)
               => /\ cpu'.pc = cpu.pc /\ cpu'.sp = cpu.sp
                  /\ InterruptFlags(memory') = InterruptFlags(HandlerMemory)
        /\ cpu.halt /\ ~cpu'.halt
               => HandlerRuns /\ AnyPending(HandlerMemory) ]_vars

\* A key press has woken the CPU halted at 0x0060 with IME clear: it goes on
\* at 0x0061 and the joypad interrupt stays requested.
C9_Witness ==
    /\ last = Op("check_key_presses", 0, \h01)
    /\ ~cpu.halt /\ ~cpu.ime /\ cpu.pc = \h61
    /\ Bit(InterruptFlags(memory), 4) = 1

\* C10: a CPU::step of a halted CPU returns 4 T-cycles and leaves PC, SP,
\* every register, IME and all memory unchanged.
C10_HaltedStep ==
    [][ cpu.halt /\ last'.op = "cpu_step"
           => /\ cpu' = cpu
              /\ memory' = memory /\ dma_transfer' = dma_transfer
              /\ ~panicked'
              /\ gb'.cycles = 4 ]_vars

\* A step has just been taken by a halted CPU.
C10_Witness ==
    /\ cpu.halt /\ last = Op("cpu_step", cpu.pc, 0)
    /\ gb.pc = "bus_step" /\ gb.cycles = 4

(***************************************************************************)
(* SpecCpu: CPU::step on a program in work RAM, from the register values   *)
(* and stack contents a program can have set up.                           *)
(***************************************************************************)
\* The program is at 0xC000 and the stack pointer at 0xD002.
\* Programs of arithmetic: every A, B and carry-in.
ArithmeticPrograms ==
    { <<\h88, \h98>>, <<\h98, \h88>> }

\* Programs of stack traffic on AF.
StackPrograms ==
    { <<\hF5, \hF1>>, <<\hF1, \hF5>>, <<\hF1, \hF1>>, <<\h88, \hF5>> }

\* DAA; DAA and ADD A,0x01; DAA
DaaPrograms == { <<\h27, \h27>>, <<\hC6, \h01, \h27>> }

\* The values F can hold: any combination of the four flags.
FlagBytes == { 16 * n : n \in 0..15 }

\* Bytes found on the stack by a POP AF.
StackBytes == { \h00, \h0F, \h5A, \hA5, \hFF }

SampleBytes == { \h00, \h01, \h0F, \h10, \h80, \hFF }

ProgramMemory(program, low, high) ==
    [ MemoryNew(NoControllerCartridge(LoopRom)) EXCEPT
        !.boot_rom = FALSE,
        !.memory = ArraySet(ArraySet(ArraySet(ArraySet(ArraySet(@,
                       \hC000, program[1]),
                       \hC001, program[2]),
                       \hC002, IF Len(program) > 2 THEN program[3] ELSE 0),
                       \hD002, low),
                       \hD003, high) ]

CpuAt(a, f, b) ==
    [CPU_new EXCEPT !.a = a, !.f = f, !.b = b,
                    !.pc = \hC000, !.sp = \hD002]

InitCpu ==
    /\ overflow_checks = FALSE
    /\ \/ \E program \in ArithmeticPrograms, a \in 0..255, b \in 0..255,
              f \in { 0, Flag_Carry } :
              /\ memory = ProgramMemory(program, 0, 0)
              /\ cpu = CpuAt(a, f, b)
       \/ \E program \in StackPrograms, a \in SampleBytes, f \in FlagBytes,
              low \in StackBytes, high \in SampleBytes :
              /\ memory = ProgramMemory(program, low, high)
              /\ cpu = CpuAt(a, f, \h01)
       \/ \E program \in DaaPrograms, a \in 0..255, f \in FlagBytes :
              /\ memory = ProgramMemory(program, 0, 0)
              /\ cpu = CpuAt(a, f, \h01)
    /\ InitCommon

CpuOnly(r) ==
    /\ cpu' = r.cpu
    /\ SetBus(r.bus)
    /\ gb' = [gb EXCEPT !.cycles = r.cycles]

\* CPU::step alone.
StepCpu ==
    /\ ~panicked /\ ticks < MaxCpuOps
    /\ from_byte(Fetched) # "Other"
    /\ CpuOnly(CPU_step(cpu, Bus))
    /\ last' = Op("cpu_step", cpu.pc, Fetched)
    /\ ticks' = ticks + 1
    /\ UNCHANGED <<dma_watch, reload, overflow_checks>>

NextCpu == StepCpu

SpecCpu == InitCpu /\ [][NextCpu]_vars

\* The step now being taken executes the opcode named.
Executing(opcode) ==
    last'.op = "cpu_step" /\ ~cpu.halt /\ last'.value = opcode

CarryIn == (cpu.f \div 16) % 2

FlagOf(f, mask) == (f \div mask) % 2 = 1

\* C12: ADC A,B leaves A' = (A+B+c) mod 256, Z = (A' = 0), N = 0,
\* H = ((A&0xF)+(B&0xF)+c > 0xF), C = (A+B+c > 0xFF); SBC A,B leaves
\* A' = (A-B-c) mod 256, Z = (A' = 0), N = 1, H = ((A&0xF) < (B&0xF)+c),
\* C = (A < B+c); for every A, B and carry-in c.
C12_AdcSbc ==
    [][ /\ Executing(\h88) =>
               /\ cpu'.a = (cpu.a + cpu.b + CarryIn) % 256
               /\ FlagOf(cpu'.f, 128) = (cpu'.a = 0)
               /\ ~FlagOf(cpu'.f, 64)
               /\ FlagOf(cpu'.f, 32)
                      = ((cpu.a % 16) + (cpu.b % 16) + CarryIn > 15)
               /\ FlagOf(cpu'.f, 16) = (cpu.a + cpu.b + CarryIn > 255)
        /\ Executing(\h98) =>
               /\ cpu'.a = (cpu.a - cpu.b - CarryIn + 512) % 256
               /\ FlagOf(cpu'.f, 128) = (cpu'.a = 0)
               /\ FlagOf(cpu'.f, 64)
               /\ FlagOf(cpu'.f, 32)
                      = ((cpu.a % 16) < (cpu.b % 16) + CarryIn)
               /\ FlagOf(cpu'.f, 16) = (cpu.a < cpu.b + CarryIn) ]_vars

\* SBC A,B from A = 0x10, B = 0x0F with carry-in 1: A' = 0 with Z, N and H.
C12_Witness ==
    /\ last = Op("cpu_step", \hC000, \h98)
    /\ cpu.b = \h0F /\ cpu.a = \h00 /\ cpu.f = \hE0

(***************************************************************************)
(* DIV (C13), checked in SpecTimer.                                        *)
(***************************************************************************)
DIV(m) == Memory_read8(m, \hFF04)

\* DIV as read n M-cycles of bus stepping after a write of v to 0xFF04.
DivAfterReset(v, n) ==
    DIV(MemoryBus_step(MemoryBus_write8(Bus, \hFF04, v), 4 * n).memory)

\* C13: DIV reads bits 15..8 of a 16-bit counter that advances by 4 mod 2^16
\* on every M-cycle of bus stepping, so DIV goes up by one every 64 M-cycles
\* and wraps from 0xFF to 0; a write of any value to 0xFF04 zeroes the whole
\* counter, so the next DIV increment comes exactly 64 M-cycles later.
C13_Divider ==
    /\ [](DIV(memory) = memory.timer.clock \div 256)
    /\ [](\A v \in { \h00, \hFF } :
             /\ DivAfterReset(v, 0) = 0
             /\ DivAfterReset(v, 63) = 0
             /\ DivAfterReset(v, 64) = 1)
    /\ [][ /\ Ticking =>
               /\ memory'.timer.clock = (memory.timer.clock + 4) % 65536
               /\ DIV(memory') = IF memory.timer.clock % 256 = 252
                                 THEN (DIV(memory) + 1) % 256
                                 ELSE DIV(memory)
           /\ Writing(\hFF04) => memory'.timer.clock = 0 ]_vars

\* A tick has wrapped the counter from 0xFFFC to 0 and DIV from 0xFF to 0.
C13_Witness ==
    /\ last = Op("step", 0, 4) /\ ticks = 1
    /\ memory.timer.clock = 0 /\ DIV(memory) = 0

(***************************************************************************)
(* SpecIo: reads and writes of the bus over the memory map, from           *)
(* construction, with no OAM DMA.                                          *)
(***************************************************************************)
IoWrites ==
    { <<\hFF50, \h00>>, <<\hFF50, \h01>>, <<\hFF50, \hFE>>,
      <<\hC000, \h5A>>, <<\hDDFF, \hA5>>, <<\hE000, \h3C>>,
      <<\hFDFF, \hC3>>,
      <<\hFEA0, \h77>>, <<\hFEFF, \h77>>,
      <<\hFF03, \h01>>, <<\h2000, \h01>> }

IoReads ==
    { \h0000, \h0040, \h00FC, \hC000, \hDDFF, \hE000, \hFDFF,
      \hFEA0, \hFEFF, \hFF03, \hFF10, \hFF50 }

\* MemoryBus::read8: the value goes to the caller, a panic ends the program.
Returned(address, value) ==
    /\ last' = Op("read8", address, value)
    /\ panicked' = (value = Panic)

BusRead(address, max) ==
    /\ ~panicked /\ ticks < max
    /\ Returned(address, MemoryBus_read8(Bus, address))
    /\ ticks' = ticks + 1
    /\ UNCHANGED <<memory, dma_transfer, cpu, gb, dma_watch, reload,
                   overflow_checks>>

IoWriteOp == \E w \in IoWrites : BusWrite(w[1], w[2], MaxIoOps)

IoReadOp == \E address \in IoReads : BusRead(address, MaxIoOps)

NextIo == IoWriteOp \/ IoReadOp

SpecIo == InitBus /\ [][NextIo]_vars

\* Addresses at which the boot ROM and the cartridge ROM differ.
OverlayProbes == { \h00, \h01, \h40, \h48, \hFC, \hFF }

OverlayVisible(b) ==
    \A a \in OverlayProbes : MemoryBus_read8(b, a) = fast_boot_rom[a]

Rom0Visible(b) ==
    \A a \in OverlayProbes : MemoryBus_read8(b, a) = RomImage(LoopRom, a)

Retiring == Writing(\hFF50) /\ last'.value % 2 = 1

\* C14: reads of 0x0000-0x00FF return the boot ROM from construction until
\* the first write to 0xFF50 with bit 0 set; a write with bit 0 clear does
\* not retire the overlay; once retired, the reads return cartridge ROM0
\* ever after, whatever is written to 0xFF50.
C14_BootOverlay ==
    /\ [](ticks = 0 => OverlayVisible(Bus))
    /\ [][ IF OverlayVisible(Bus)
           THEN IF Retiring THEN Rom0Visible(Bus') ELSE OverlayVisible(Bus')
           ELSE Rom0Visible(Bus) /\ Rom0Visible(Bus') ]_vars

\* The overlay is gone and 0xFE has been written to 0xFF50 afterwards.
C14_Witness ==
    /\ last = Op("write8", \hFF50, \hFE)
    /\ Rom0Visible(Bus) /\ ~OverlayVisible(Bus)
    /\ ArrayGet(memory.memory, \hFF50) = \hFE

WorkingRam == { \hC000, \hC001, \hD000, \hDDFE, \hDDFF }

Mirrored(b) ==
    \A a \in WorkingRam :
        /\ MemoryBus_read8(b, a) # Panic
        /\ MemoryBus_read8(b, a + \h2000) = MemoryBus_read8(b, a)

\* C15: with no OAM DMA running, a byte written at a in 0xC000-0xDDFF is
\* read back at a + 0x2000, and a byte written at a + 0x2000 is read back
\* at a.
C15_EchoRoundTrip ==
    /\ [](~is_active(dma_transfer) => Mirrored(Bus))
    /\ [][ \A a \in WorkingRam :
             /\ Writing(a) =>
                    MemoryBus_read8(Bus', a + \h2000) = last'.value
             /\ Writing(a + \h2000) =>
                    MemoryBus_read8(Bus', a) = last'.value ]_vars

\* A byte written through the echo range has been read back from WRAM,
\* after a byte was written to WRAM at the other end of the range.
C15_Witness ==
    /\ last = Op("read8", \hC000, \h3C)
    /\ MemoryBus_read8(Bus, \hFDFF) = \hA5
    /\ ~is_active(dma_transfer)

Reading(address) == last'.op = "read8" /\ last'.address = address

UnimplementedIo == { \hFF03 }

\* C16: bus accesses never fail, for every address and value: a read of an
\* unimplemented I/O register in 0xFF00-0xFF7F returns 0, a write to one is
\* ignored, and execution continues.
C16_NoAccessFails ==
    /\ [](~panicked)
    /\ [][ \A a \in UnimplementedIo :
             /\ Reading(a) => last'.value = 0
             /\ Writing(a) => memory' = memory ]_vars

\* What the code does: an access fails only where a match arm is
\* unimplemented!() or the cartridge has no controller to take the write.
C16_FailsWhereUnimplemented ==
    [][ panicked' =>
          \/ Reading(\hFEA0) \/ Reading(\hFEFF)
          \/ Reading(\hFF03) \/ Reading(\hFF50)
          \/ Writing(\hFF03) \/ Writing(\h2000) ]_vars

Unusable == { \hFEA0, \hFEFF }

\* C17: for every address in 0xFEA0-0xFEFF, read8 returns 0 and write8
\* changes no state.
C17_Unusable ==
    [][ \A a \in Unusable :
          /\ Reading(a) => last'.value = 0 /\ ~panicked'
          /\ Writing(a) =>
                /\ memory' = memory /\ dma_transfer' = dma_transfer
                /\ ~panicked' ]_vars

\* What the code does for writes: they change nothing.
C17_UnusableWritesIgnored ==
    [][ \A a \in Unusable :
          Writing(a) =>
             /\ memory' = memory /\ dma_transfer' = dma_transfer
             /\ ~panicked' ]_vars

(***************************************************************************)
(* LCD registers (memory.rs, ppu.rs) and the frame loop GameBoy::run       *)
(* (mod.rs).                                                               *)
(***************************************************************************)
LcdMode_HBlank == 0
LcdMode_VBlank == 1
LcdMode_SearchingOAM == 2
LcdMode_TransferringDataToLcdController == 3

CPU_CYCLES_PER_SCANLINE == (4194304 \div 60) \div 154

ly(m) == ArrayGet(m.memory, \hFF44)

lyc(m) == ArrayGet(m.memory, \hFF45)

LcdStatusFlags(m) == ArrayGet(m.memory, \hFF41)

lyc_eq_ly_interrupt_set(flags) == Bit(flags, 6) = 1

mode2_oam_interrupt_set(flags) == Bit(flags, 5) = 1

mode1_vblank_interrupt_set(flags) == Bit(flags, 4) = 1

mode0_hblank_interrupt_set(flags) == Bit(flags, 3) = 1

\* A variant that never clears the LYC=LY flag.
update_lyc_eq_ly_never_clears(flags, set) == BitOr(flags, 4)

update_lyc_eq_ly(flags, set) ==
    IF set THEN BitOr(flags, 4) ELSE BitAnd(flags, \hFB)

\* A variant that does not clear the old mode bits.
set_mode_keeps_old_bits(flags, mode) ==
    [ flags |-> BitOr(flags, mode), interrupt |-> FALSE ]

\* A variant that requests on any of the three mode enable bits.
set_mode_any_enable(flags, mode) ==
    [ flags |-> BitOr(BitAnd(flags, \hFC), mode),
      interrupt |-> mode # LcdMode_TransferringDataToLcdController
                    /\ BitAnd(flags, \h38) # 0 ]

\* LcdStatus::set_mode.  Result: [flags, interrupt |-> the returned bool]
set_mode(flags, mode) ==
    LET new_flags == BitOr(BitAnd(flags, \hFC), mode)
    IN  [ flags |-> new_flags,
          interrupt |->
            CASE mode = LcdMode_HBlank -> mode0_hblank_interrupt_set(new_flags)
              [] mode = LcdMode_VBlank -> mode1_vblank_interrupt_set(new_flags)
              [] mode = LcdMode_SearchingOAM ->
                                    mode2_oam_interrupt_set(new_flags)
              [] OTHER -> FALSE ]

ModeSet(m, r) ==
    LET m1 == [m EXCEPT !.memory = ArraySet(@, \hFF41, r.flags)]
    IN  IF r.interrupt THEN RequestInterrupt(m1, 2) ELSE m1

set_lcd_mode(m, mode) == ModeSet(m, set_mode(LcdStatusFlags(m), mode))

LySet(m, value, equal) ==
    LET flags == update_lyc_eq_ly(LcdStatusFlags(m), equal)
        m1 == [m EXCEPT !.memory = ArraySet(@, \hFF41, flags)]
    IN  IF equal /\ lyc_eq_ly_interrupt_set(flags)
        THEN RequestInterrupt(m1, 2)
        ELSE m1

set_ly(m, value) ==
    LySet([m EXCEPT !.memory = ArraySet(@, \hFF44, value)], value,
          value = lyc(m))

\* GameBoy::step: CPU::step, MemoryBus::step, CPU::handle_interrupts and,
\* when an interrupt was serviced, 20 more cycles.  Result: [cpu, bus, cycles]
InterruptsHandled(h, cycles) ==
    IF ~h.serviced \/ h.bus.panic THEN Res(h.cpu, h.bus, cycles)
    ELSE Res(h.cpu, MemoryBus_step(h.bus, 20), cycles + 20)

BusStepped(r, b) ==
    IF b.panic THEN Res(r.cpu, b, r.cycles)
    ELSE InterruptsHandled(CPU_handle_interrupts(r.cpu, b), r.cycles)

CpuStepDone(r) ==
    IF r.bus.panic THEN r
    ELSE BusStepped(r, MemoryBus_step(r.bus, r.cycles))

GameBoy_step(c, b) == CpuStepDone(CPU_step(c, b))

(***************************************************************************)
(* SpecFrame: GameBoy::run from construction.  gb.pc is the statement of   *)
(* the loop that comes next, gb.scanline the loop variable,                *)
(* gb.scanline_cycles the local of that name and gb.frames the number of   *)
(* frames completed.  PPU::paint_line only reads (and paints nothing while *)
(* LCDC is 0, as it is in the programs run here); PPU::refresh and the     *)
(* frame pacing touch nothing of the machine.                              *)
(***************************************************************************)
FrameRoms ==
    { LoopRom, [entry |-> "dma"] } \cup
    [ entry : {"lyc"}, lyc : { 1, 144 }, stat : { \h00, \h44, \h79, \h10 } ]

\* GameBoy::new with each of the cartridges in roms, and the entry of
\* GameBoy::run; limit is the number of frames followed.
InitRun(roms, limit) ==
    /\ overflow_checks = FALSE
    /\ \E rom \in roms : memory = MemoryNew(NoControllerCartridge(rom))
    /\ cpu = CPU_new
    /\ dma_transfer = NoDma
    /\ panicked = FALSE
    /\ gb = [ pc |-> "set_ly", scanline |-> 0, scanline_cycles |-> 0,
              frames |-> 0, limit |-> limit ]
    /\ last = Op("new", 0, 0)
    /\ dma_watch = NoWatch
    /\ reload = "none"
    /\ ticks = 0

InitFrame == InitRun(FrameRoms, MaxFrames)

At(pc) == gb.pc = pc /\ ~panicked /\ gb.frames <= gb.limit

SetLy ==
    /\ At("set_ly")
    /\ memory' = set_ly(memory, gb.scanline)
    /\ gb' = [gb EXCEPT !.pc = IF gb.scanline <= 144 THEN "set_lcd_mode"
                                ELSE "vblank"]
    /\ last' = Op("set_ly", \hFF44, gb.scanline)
    /\ UNCHANGED <<dma_transfer, cpu, panicked, dma_watch, reload, ticks,
                   overflow_checks>>

SetLcdMode(mode, next) ==
    /\ memory' = set_lcd_mode(memory, mode)
    /\ gb' = [gb EXCEPT !.pc = next]
    /\ last' = Op("set_lcd_mode", \hFF41, mode)
    /\ UNCHANGED <<dma_transfer, cpu, panicked, dma_watch, reload, ticks,
                   overflow_checks>>

SearchOam ==
    /\ At("set_lcd_mode") /\ gb.scanline < 144
    /\ SetLcdMode(LcdMode_SearchingOAM, "searching_oam")

TransferData ==
    /\ At("searching_oam") /\ ~(gb.scanline_cycles <= 80)
    /\ SetLcdMode(LcdMode_TransferringDataToLcdController, "transferring")

EnterHBlank ==
    /\ At("transferring") /\ ~(gb.scanline_cycles <= 280)
    /\ SetLcdMode(LcdMode_HBlank, "hblank")

EnterVBlank ==
    /\ At("set_lcd_mode") /\ gb.scanline = 144
    /\ SetLcdMode(LcdMode_VBlank, "request_vblank")

\* let requests = self.memory.read8(0xFF0F) | 1;
\* self.memory.write8(0xFF0F, requests);
VBlankRequested(requests) ==
    /\ SetBus(MemoryBus_write8(Bus, \hFF0F, requests))
    /\ last' = Op("request_vblank", \hFF0F, requests)

RequestVBlank ==
    /\ At("request_vblank")
    /\ VBlankRequested(BitOr(MemoryBus_read8(Bus, \hFF0F), 1))
    /\ gb' = [gb EXCEPT !.pc = "vblank"]
    /\ UNCHANGED <<cpu, dma_watch, reload, ticks, overflow_checks>>

InLoop ==
    \/ gb.pc = "searching_oam" /\ gb.scanline_cycles <= 80
    \/ gb.pc = "transferring" /\ gb.scanline_cycles <= 280
    \/ gb.pc \in {"hblank", "vblank"}
         /\ gb.scanline_cycles < CPU_CYCLES_PER_SCANLINE

FrameStepped(r) ==
    /\ cpu' = r.cpu
    /\ SetBus(r.bus)
    /\ gb' = [gb EXCEPT !.scanline_cycles = @ + r.cycles]
    /\ last' = Op("step", cpu.pc, r.cycles)

RunStep ==
    /\ InLoop /\ ~panicked /\ gb.frames < gb.limit
    /\ cpu.halt \/ Fetched = Panic \/ from_byte(Fetched) # "Other"
    /\ FrameStepped(GameBoy_step(cpu, Bus))
    /\ UNCHANGED <<dma_watch, reload, ticks, overflow_checks>>

\* scanline_cycles %= CPU_CYCLES_PER_SCANLINE, and the next scanline.
EndLine ==
    /\ gb.pc \in {"hblank", "vblank"} /\ ~panicked
    /\ ~(gb.scanline_cycles < CPU_CYCLES_PER_SCANLINE)
    /\ gb' = [gb EXCEPT
                !.scanline_cycles = @ % CPU_CYCLES_PER_SCANLINE,
                !.scanline = IF @ \in {143, 153} THEN 0 ELSE @ + 1,
                !.pc = IF gb.scanline = 143 THEN "refresh" ELSE "set_ly",
                !.frames = IF gb.scanline = 153 THEN @ + 1 ELSE @]
    /\ last' = Op("end_line", 0, gb.scanline)
    /\ UNCHANGED <<memory, dma_transfer, cpu, panicked, dma_watch, reload,
                   ticks, overflow_checks>>

\* self.ppu.refresh(&mut self.emulator_window), after the frame pacing.
Refresh ==
    /\ At("refresh")
    /\ gb' = [gb EXCEPT !.pc = "check_key_presses"]
    /\ last' = Op("refresh", 0, 0)
    /\ UNCHANGED <<memory, dma_transfer, cpu, panicked, dma_watch, reload,
                   ticks, overflow_checks>>

KeysPolled(r) ==
    /\ cpu' = r.cpu
    /\ SetBus(r.bus)
    /\ gb' = [gb EXCEPT !.scanline_cycles = @ + r.cycles,
                        !.pc = "is_esc_pressed"]

\* scanline_cycles += self.check_key_presses(); presses is what
\* get_key_presses returns.
PollKeys ==
    /\ At("check_key_presses")
    /\ \E presses \in KeyPresses :
        /\ KeysPolled(check_key_presses(cpu, Bus, presses))
        /\ last' = Op("get_key_presses", 0, presses)
    /\ UNCHANGED <<dma_watch, reload, ticks, overflow_checks>>

\* A loop that is never left.
AfterEscapeTest_never_breaks(esc) == "set_ly"

\* if self.emulator_window.is_esc_pressed() { break; }
AfterEscapeTest(esc) == IF esc THEN "escaped" ELSE "set_ly"

\* esc is what is_esc_pressed returns.
TestEscape ==
    /\ At("is_esc_pressed")
    /\ \E esc \in BOOLEAN :
        /\ gb' = [gb EXCEPT !.scanline = 144, !.pc = AfterEscapeTest(esc)]
        /\ last' = Op("is_esc_pressed", 0, IF esc THEN 1 ELSE 0)
    /\ UNCHANGED <<memory, dma_transfer, cpu, panicked, dma_watch, reload,
                   ticks, overflow_checks>>

NextFrame ==
    \/ SetLy
    \/ SearchOam
    \/ TransferData
    \/ EnterHBlank
    \/ EnterVBlank
    \/ RequestVBlank
    \/ RunStep
    \/ EndLine
    \/ Refresh
    \/ PollKeys
    \/ TestEscape

SpecFrame == InitFrame /\ [][NextFrame]_vars

LY == ly(memory)

Mode == LcdStatusFlags(memory) % 4

\* Where the run loop stands against what the LCD registers show.
ModeOfLine ==
    /\ gb.pc = "searching_oam" =>
          Mode = 2 /\ LY = gb.scanline /\ LY < 144
    /\ gb.pc = "transferring" =>
          Mode = 3 /\ LY = gb.scanline /\ LY < 144
    /\ gb.pc = "hblank" =>
          Mode = 0 /\ LY = gb.scanline /\ LY < 144
    /\ gb.pc \in {"request_vblank", "vblank"} =>
          Mode = 1 /\ LY = gb.scanline /\ LY >= 144 /\ LY <= 153
    /\ gb.pc = "set_lcd_mode" =>
          /\ LY = gb.scanline
          /\ Mode = IF LY = 0 /\ last.op = "set_ly" /\ gb.frames > 0 THEN 1
                    ELSE 0

\* C18: in every frame LY takes the values 0..153 in order; on each visible
\* line LY is set first and the STAT mode is then 2, 3 and 0; at LY = 144
\* the mode becomes 1 and stays 1 through LY = 153; then LY = 0 and mode 2
\* again.  No CPU write changes the mode bits of STAT.
C18_Scanlines ==
    /\ []ModeOfLine
    /\ [][ /\ ly(memory') # LY =>
                /\ ly(memory') = (LY + 1) % 154
                /\ last'.op = "set_ly"
                /\ LcdStatusFlags(memory') % 4 = Mode
                /\ Mode = IF LY <= 143 THEN 0 ELSE 1
           /\ LcdStatusFlags(memory') % 4 # Mode =>
                /\ last'.op = "set_lcd_mode"
                /\ ly(memory') = LY
                /\ <<Mode, LcdStatusFlags(memory') % 4>> \in
                      { <<2, 3>>, <<3, 0>>, <<0, 2>>, <<0, 1>>, <<1, 2>> }
                /\ LcdStatusFlags(memory') % 4 = 1 <=> LY = 144
                /\ Mode = 1 => LY = 0 ]_vars

\* The second frame has begun, under a program that keeps writing 0x79
\* (mode bits 01) to STAT.
C18_Witness ==
    /\ gb.frames = 1 /\ gb.pc = "searching_oam"
    /\ LY = 0 /\ Mode = 2
    /\ LcdStatusFlags(memory) = \hFA
    /\ last = Op("set_lcd_mode", \hFF41, 2)

\* C19: in every frame that the escape key does not end, IF bit 0 becomes
\* set on entering line 144, whatever the CPU, the timer and OAM DMA are
\* doing at that moment.
C19_VBlankRequest ==
    [][ last'.op = "request_vblank" =>
            Bit(InterruptFlags(memory'), 0) = 1 ]_vars

\* What the code does: the request goes through the bus, and is made when
\* no OAM DMA transfer is active.
C19_VBlankRequestWithoutDma ==
    [][ last'.op = "request_vblank" /\ ~is_active(dma_transfer) =>
            Bit(InterruptFlags(memory'), 0) = 1 ]_vars

\* C20: set_ly(v) stores v in LY and makes STAT bit 2 equal to (v = LYC);
\* it requests the STAT interrupt (IF bit 1) exactly when v = LYC and STAT
\* bit 6 is set, and leaves IF unchanged otherwise.
C20_SetLy ==
    [][ last'.op = "set_ly" =>
          LET v == last'.value
              equal == v = lyc(memory)
              stat == LcdStatusFlags(memory)
          IN  /\ ly(memory') = v
              /\ lyc(memory') = lyc(memory)
              /\ Bit(LcdStatusFlags(memory'), 2) = IF equal THEN 1 ELSE 0
              /\ BitAnd(LcdStatusFlags(memory'), \hFB) = BitAnd(stat, \hFB)
              /\ InterruptFlags(memory') =
                    IF equal /\ Bit(stat, 6) = 1
                    THEN BitOr(InterruptFlags(memory), 2)
                    ELSE InterruptFlags(memory) ]_vars

\* LY has just reached LYC = 144 with only the LYC=LY interrupt enabled in
\* STAT, and the STAT interrupt is requested.
C20_Witness ==
    /\ last = Op("set_ly", \hFF44, 144)
    /\ lyc(memory) = 144
    /\ LcdStatusFlags(memory) = \hC4
    /\ Bit(InterruptFlags(memory), 1) = 1

(***************************************************************************)
(* SpecCart: reads and writes of the bus that reach the cartridge, for     *)
(* cartridges with each memory controller, from construction.  gb holds    *)
(* two observers: gb.progress is how many writes of BankSequence have been *)
(* made, in order and with no other write, and gb.kept is the last byte    *)
(* stored in cartridge RAM, while no bank register has changed since.      *)
(***************************************************************************)
BankedRom(controller, num_rom_banks, num_ram_banks) ==
    [ entry |-> "banked", controller |-> controller,
      num_rom_banks |-> num_rom_banks, num_ram_banks |-> num_ram_banks ]

Cartridges ==
    { ControllerCartridge(BankedRom("MBC1", 32, 1)),
      ControllerCartridge(BankedRom("MBC1", 64, 0)),
      ControllerCartridge(BankedRom("MBC2", 16, 0)),
      ControllerCartridge(BankedRom("MBC3", 8, 4)),
      ControllerCartridge(BankedRom("MBC5", 8, 1)),
      NoControllerCartridge(LoopRom),
      RamCartridge(LoopRom) }

CartWrites ==
    { <<\h0000, \h0A>>, <<\h0000, \h00>>, <<\h1FFF, \h1A>>, <<\h0100, \h02>>,
      <<\h3E00, \h0A>>, <<\h2100, \h10>>,
      <<\h2000, \h05>>, <<\h4000, \h00>>, <<\h6000, \h01>>, <<\h4000, \h01>>,
      <<\hA000, \h5A>>, <<\hA200, \hC3>> }

CartReads == { \h0000, \h4000, \hA000, \hA200 }

BankSequence ==
    << <<\h2000, \h05>>, <<\h4000, \h00>>, <<\h6000, \h01>>, <<\h4000, \h01>> >>

NoneKept == [some |-> FALSE, address |-> 0, value |-> 0]

InitCart ==
    /\ overflow_checks = FALSE
    /\ \E c \in Cartridges :
          memory = [MemoryNew(c) EXCEPT !.boot_rom = FALSE]
    /\ cpu = CPU_new
    /\ dma_transfer = NoDma
    /\ panicked = FALSE
    /\ gb = [progress |-> 0, kept |-> NoneKept]
    /\ last = Op("new", 0, 0)
    /\ dma_watch = NoWatch
    /\ reload = "none"
    /\ ticks = 0

HasController(c) == c.memory_controller # "NoController"

RamEnabled(c) == HasController(c) /\ c.mbc.ram_enabled

\* The address is the RAM-enable register of the controller.
IsRamEnable(c, address) ==
    IF c.memory_controller = "MBC2"
    THEN address <= \h3FFF /\ Bit(address, 8) = 0
    ELSE address <= \h1FFF

IsCartridgeRam(address) == address >= \hA000 /\ address <= \hBFFF

ProgressAfter(address, value) ==
    IF gb.progress >= 0 /\ gb.progress < Len(BankSequence)
       /\ BankSequence[gb.progress + 1] = <<address, value>>
    THEN gb.progress + 1
    ELSE -1

KeptAfter(c, address, value, panic) ==
    IF panic THEN NoneKept
    ELSE IF IsCartridgeRam(address) THEN
        IF RamEnabled(c)
        THEN [some |-> TRUE, address |-> address, value |-> value]
        ELSE gb.kept
    ELSE IF IsRamEnable(c, address) THEN gb.kept
    ELSE NoneKept

CartWritten(b, address, value) ==
    /\ SetBus(b)
    /\ gb' = [ progress |-> ProgressAfter(address, value),
               kept |-> KeptAfter(memory.cartridge, address, value, b.panic) ]

CartWrite(address, value) ==
    /\ ~panicked /\ ticks < MaxCartOps
    /\ CartWritten(MemoryBus_write8(Bus, address, value), address, value)
    /\ last' = Op("write8", address, value)
    /\ ticks' = ticks + 1
    /\ UNCHANGED <<cpu, dma_watch, reload, overflow_checks>>

CartWriteOp == \E w \in CartWrites : CartWrite(w[1], w[2])

CartReadOp == \E address \in CartReads : BusRead(address, MaxCartOps)

NextCart == CartWriteOp \/ CartReadOp

SpecCart == InitCart /\ [][NextCart]_vars

RamProbes == { \hA000, \hA1FF, \hA200, \hBFFF }

\* What a read returns of a byte stored through the controller.
ReadBack(c, value) ==
    IF c.memory_controller = "MBC2" THEN BitOr(value % 16, \hF0) ELSE value

\* C21: for MBC1, MBC2, MBC3 and MBC5 cartridge RAM is enabled exactly when
\* the last write to the RAM-enable register had low nibble 0xA, and is
\* disabled initially; while it is not enabled every read of 0xA000-0xBFFF
\* returns 0xFF and every write there leaves the RAM contents unchanged; a
\* value written while enabled is read back unchanged after disabling and
\* enabling again.
C21_RamEnable ==
    /\ [](HasController(memory.cartridge) =>
            /\ ticks = 0 => ~RamEnabled(memory.cartridge)
            /\ ~RamEnabled(memory.cartridge) =>
                  \A a \in RamProbes : MemoryBus_read8(Bus, a) = \hFF
            /\ gb.kept.some /\ RamEnabled(memory.cartridge) =>
                  MemoryBus_read8(Bus, gb.kept.address) =
                      ReadBack(memory.cartridge, gb.kept.value))
    /\ [][ HasController(memory.cartridge) /\ ~panicked' =>
            /\ RamEnabled(memory'.cartridge) =
                 IF last'.op = "write8"
                    /\ IsRamEnable(memory.cartridge, last'.address)
                 THEN last'.value % 16 = \h0A
                 ELSE RamEnabled(memory.cartridge)
            /\ ~RamEnabled(memory.cartridge) \/ last'.op # "write8"
               \/ ~IsCartridgeRam(last'.address) =>
                    memory'.cartridge.ram = memory.cartridge.ram ]_vars

\* A byte stored while RAM was enabled has been read back after RAM was
\* disabled and enabled again.
C21_Witness ==
    /\ HasController(memory.cartridge)
    /\ gb.kept = [some |-> TRUE, address |-> \hA000, value |-> \h5A]
    /\ ticks = 5
    /\ last = Op("read8", \hA000,
                 ReadBack(memory.cartridge, \h5A))

\* An MBC1 cartridge with the given number of ROM banks (32: 4 Mbit).
IsMbc1(c, num_rom_banks) ==
    c.memory_controller = "MBC1" /\ c.rom.num_rom_banks = num_rom_banks

IsMbc2(c) == c.memory_controller = "MBC2"

Mirrors == { \hA000, \hA200, \hA400, \hBE00, \hA001, \hBFFF }

\* C23: on MBC2 a write to 0x0000-0x3FFF is a RAM-enable write when bit 8 of
\* the address is 0 and a ROM-bank write (low 4 bits, 0 becomes 1) when it
\* is 1; with RAM enabled, a byte V written to a in 0xA000-0xBFFF is read
\* at every a' in 0xA000-0xBFFF with a' & 0x1FF = a & 0x1FF as
\* (V & 0x0F) | 0xF0.
C23_Mbc2 ==
    [][ IsMbc2(memory.cartridge) /\ last'.op = "write8" =>
          LET a == last'.address
              v == last'.value
              r == memory.cartridge.mbc
              s == memory'.cartridge.mbc
          IN  /\ ~panicked'
              /\ a <= \h3FFF /\ Bit(a, 8) = 0 =>
                    /\ s.ram_enabled = (v % 16 = \h0A)
                    /\ s.rom_bank = r.rom_bank
              /\ a <= \h3FFF /\ Bit(a, 8) = 1 =>
                    /\ s.rom_bank = (IF v % 16 = 0 THEN 1 ELSE v % 16)
                    /\ MemoryBus_read8(Bus', \h4000) = BankTag(s.rom_bank)
                    /\ s.ram_enabled = r.ram_enabled
              /\ a > \h3FFF => s = r
              /\ IsCartridgeRam(a) /\ r.ram_enabled =>
                    \A b \in Mirrors :
                        b % 512 = a % 512 =>
                            MemoryBus_read8(Bus', b) = BitOr(v % 16, \hF0) ]_vars

\* On MBC2 a byte stored at 0xA000 has been read back at its mirror 0xA200,
\* after a ROM-bank write.
C23_Witness ==
    /\ IsMbc2(memory.cartridge)
    /\ memory.cartridge.mbc.rom_bank = 2
    /\ gb.kept = [some |-> TRUE, address |-> \hA000, value |-> \h5A]
    /\ last = Op("read8", \hA200, \hFA)

RomProbes == { \h0000, \h0100, \h0102, \h4000, \h7FFF }

\* C24: on a cartridge without memory controller a write to 0x0000-0x7FFF
\* changes no mapping (reads of 0x0000-0x7FFF keep returning the ROM byte at
\* the same offset) and the system continues; a byte V written to an address
\* in 0xA000-0xBFFF of a cartridge that declares RAM is stored in that RAM
\* and read back as V.
C24_NoController ==
    [][ ~HasController(memory.cartridge) /\ last'.op = "write8" =>
          /\ ~panicked'
          /\ last'.address <= \h7FFF =>
                \A a \in RomProbes :
                    MemoryBus_read8(Bus', a) = RomImage(memory.cartridge.rom, a)
          /\ IsCartridgeRam(last'.address) /\ memory.cartridge.ram_len > 0 =>
                MemoryBus_read8(Bus', last'.address) = last'.value ]_vars

\* What the code does: without controller every write to the cartridge
\* ends the program, and so does every read of its RAM.
C24_NoControllerWritesFail ==
    [][ ~HasController(memory.cartridge) =>
          /\ last'.op = "write8" => panicked'
          /\ last'.op = "read8" =>
                panicked' = IsCartridgeRam(last'.address) ]_vars

(***************************************************************************)
(* DAA (C28), checked in SpecCpu.                                          *)
(***************************************************************************)
\* The 0x06 and 0x60 adjustments of the reference DAA for the step now
\* being taken.
LowAdjusted ==
    FlagOf(cpu.f, 32) \/ (~FlagOf(cpu.f, 64) /\ cpu.a % 16 > 9)

HighAdjusted ==
    FlagOf(cpu.f, 16) \/ (~FlagOf(cpu.f, 64) /\ cpu.a > \h99)

DaaAdjustment ==
    (IF LowAdjusted THEN 6 ELSE 0) + (IF HighAdjusted THEN 96 ELSE 0)

\* C28: for every A and every combination of N, H and C, DAA with N = 0
\* adds 0x06 if H is set or (A & 0x0F) > 9 and 0x60 if C is set or A > 0x99,
\* and with N = 1 subtracts 0x06 if H is set and 0x60 if C is set; afterwards
\* Z = (A = 0), H = 0, N is unchanged and C is set exactly when the 0x60
\* adjustment was applied.  ADD A,1 from A = 0x0F followed by DAA ends with
\* A = 0x16 and H = N = C = 0.
C28_Daa ==
    [][ /\ Executing(\h27) =>
               /\ cpu'.a = IF FlagOf(cpu.f, 64)
                           THEN (cpu.a - DaaAdjustment + 512) % 256
                           ELSE (cpu.a + DaaAdjustment) % 256
               /\ FlagOf(cpu'.f, 128) = (cpu'.a = 0)
               /\ FlagOf(cpu'.f, 64) = FlagOf(cpu.f, 64)
               /\ ~FlagOf(cpu'.f, 32)
               /\ FlagOf(cpu'.f, 16) = HighAdjusted
               /\ cpu'.pc = cpu.pc + 1
        /\ Executing(\hC6) /\ cpu.a = \h0F =>
               cpu'.a = \h10 /\ cpu'.f = Flag_HalfCarry
        /\ Executing(\h27) /\ last = Op("cpu_step", \hC000, \hC6)
               /\ cpu.a = \h10 /\ cpu.f = Flag_HalfCarry =>
               cpu'.a = \h16 /\ cpu'.f = 0 ]_vars

\* DAA after ADD A,0x01 has left A = 0x16 with every flag clear.
C28_Witness ==
    /\ last = Op("cpu_step", \hC002, \h27)
    /\ Memory_read8(memory, \hC000) = \hC6
    /\ cpu.a = \h16 /\ cpu.f = 0 /\ cpu.pc = \hC003

(***************************************************************************)
(* The end of the run loop (C30), checked in SpecFrame.                    *)
(***************************************************************************)
\* C30: in every frame, after line 143 has been run, refresh is called
\* once, then get_key_presses is sampled once, then is_esc_pressed is
\* sampled once; run returns exactly when that sample is true, before any
\* VBlank line of that frame is run, and never returns otherwise.
C30_Escape ==
    /\ [](gb.pc = "escaped" =>
             last = Op("is_esc_pressed", 0, 1) /\ LY = 143 /\ Mode = 0)
    /\ [][ /\ last = Op("end_line", 0, 143) => last'.op = "refresh"
           /\ last'.op = "refresh" => last = Op("end_line", 0, 143)
           /\ last.op = "refresh" => last'.op = "get_key_presses"
           /\ last'.op = "get_key_presses" => last.op = "refresh"
           /\ last.op = "get_key_presses" /\ ~panicked =>
                  last'.op = "is_esc_pressed"
           /\ last'.op = "is_esc_pressed" => last.op = "get_key_presses"
           /\ gb'.pc = "escaped" <=> last' = Op("is_esc_pressed", 0, 1)
           /\ last = Op("is_esc_pressed", 0, 0) =>
                  last' = Op("set_ly", \hFF44, 144)
           /\ gb.pc # "escaped" ]_vars

\* run has returned after line 143, with a button held when the keys were
\* sampled.
C30_Witness ==
    /\ gb.pc = "escaped" /\ gb.scanline = 144
    /\ Bit(InterruptFlags(memory), 4) = 1
    /\ last = Op("is_esc_pressed", 0, 1)
    /\ LY = 143

(***************************************************************************)
(* SpecBoot: GameBoy::run with the fast boot stub and the ROM-only         *)
(* cartridge whose program is 3E 42 18 FE at 0x0100 (C25).                 *)
(***************************************************************************)
InitBoot == InitRun({LoopRom}, MaxBootFrames)

SpecBoot == InitBoot /\ [][NextFrame]_vars

\* C25: the stub leaves SP = 0xFFFE, retires the boot overlay and reaches
\* PC = 0x0100; from the step after LD A,0x42 onward, at every instruction
\* boundary A = 0x42 and PC = 0x0102, in every later frame; no interrupt is
\* ever serviced because IME stays clear.
C25_FastBootLoop ==
    /\ [](~cpu.ime /\ ~panicked)
    /\ [](cpu.pc >= \h0100 => cpu.sp = \hFFFE /\ ~memory.boot_rom)
    /\ [](cpu.pc > \h0100 => cpu.a = \h42 /\ cpu.pc = \h0102)
    /\ [][ /\ cpu.pc < \h0100 /\ cpu'.pc # cpu.pc =>
                 cpu'.pc > cpu.pc /\ cpu'.pc <= \h0100
           /\ cpu.pc = \h0100 /\ last'.op = "step" =>
                 cpu'.pc = \h0102 /\ cpu'.a = \h42 /\ last'.value = 8
           /\ cpu.pc = \h0102 => cpu'.pc = \h0102 /\ cpu'.a = \h42
           /\ cpu.pc = \h0102 /\ last'.op = "step" => last'.value = 12
           /\ cpu.pc < \h0100 => last'.op \in {"set_ly", "set_lcd_mode", "step"}
         ]_vars

\* Ten frames have been run and the CPU is in the loop at 0x0102.
C25_Witness ==
    /\ gb.frames = MaxBootFrames /\ gb.pc = "searching_oam"
    /\ cpu.a = \h42 /\ cpu.pc = \h0102 /\ cpu.sp = \hFFFE
    /\ memory.cartridge.rom = LoopRom
    /\ ~memory.boot_rom

(***************************************************************************)
(* SpecTap: a program that enables the timer at tap bit 9 (TAC = 0x04),    *)
(* zeroes TIMA and TMA and then either busy-waits (C26) or keeps writing 0 *)
(* to DIV (C27).  gb.pc is the write that comes next, gb.enabled the       *)
(* M-cycles stepped since the write to TAC, gb.since those stepped since   *)
(* the latest write to TIMA or DIV, gb.clock0 the counter left by that     *)
(* write, gb.writes the number of DIV writes, gb.initial TIMA after the    *)
(* first of them; gb.late tells that 128 M-cycles or more separated two    *)
(* consecutive DIV writes, gb.wide that 127 M-cycles separated two.        *)
(***************************************************************************)
\* Counter values at the write to TAC: zero; tap bit clear; tap bit set;
\* tap bit set with 64 M-cycles to go; about to wrap.
TapClocks == { \h0000, \h0008, \h02AC, \h0300, \hFFFC }

InitTap ==
    /\ overflow_checks = FALSE
    /\ \E c \in TapClocks :
           memory = [MemoryNew(NoControllerCartridge(LoopRom))
                        EXCEPT !.timer.clock = c]
    /\ cpu = CPU_new
    /\ dma_transfer = NoDma
    /\ panicked = FALSE
    /\ gb = [ pc |-> "tac", enabled |-> 0, since |-> 0, clock0 |-> 0,
              writes |-> 0, initial |-> 0, late |-> FALSE,
              wide |-> FALSE ]
    /\ last = Op("new", 0, 0)
    /\ dma_watch = NoWatch
    /\ reload = "none"
    /\ ticks = 0

TapWritten(address, value) ==
    /\ ~panicked
    /\ SetBus(MemoryBus_write8(Bus, address, value))
    /\ last' = Op("write8", address, value)
    /\ UNCHANGED <<cpu, dma_watch, reload, ticks, overflow_checks>>

\* LDH (0x07),A with A = 0x04; LDH (0x05),A and LDH (0x06),A with A = 0.
SetUpTimer ==
    \/ /\ gb.pc = "tac"
       /\ TapWritten(\hFF07, \h04)
       /\ gb' = [gb EXCEPT !.pc = "tima"]
    \/ /\ gb.pc = "tima"
       /\ TapWritten(\hFF05, \h00)
       /\ gb' = [gb EXCEPT !.pc = "tma", !.since = 0,
                           !.clock0 = memory.timer.clock]
    \/ /\ gb.pc = "tma"
       /\ TapWritten(\hFF06, \h00)
       /\ gb' = [gb EXCEPT !.pc = "wait"]

\* LDH (0x04),A with A = 0: the first one soon after the setup.
ResetDiv ==
    /\ gb.pc = "wait" /\ ~gb.late /\ gb.writes < MaxDivWrites
    /\ gb.writes = 0 => gb.since <= MaxSetup
    /\ TapWritten(\hFF04, \h00)
    /\ gb' = [gb EXCEPT
                !.writes = @ + 1,
                !.enabled = 0,
                !.since = 0,
                !.clock0 = 0,
                !.late = gb.writes > 0 /\ gb.since >= 128,
                !.wide = @ \/ (gb.writes > 0 /\ gb.since = 127),
                !.initial = IF gb.writes = 0
                            THEN memory'.timer.timer ELSE @]

\* One M-cycle of the bus.
TapTick ==
    /\ ~panicked /\ gb.pc # "tac" /\ ~gb.late
    /\ gb.pc \in {"tima", "tma"} => gb.enabled < MaxSetup
    /\ gb.pc = "wait" =>
          gb.since < (IF gb.writes = 0 THEN MaxWait ELSE MaxGap)
    /\ SetBus(MemoryBus_step(Bus, 4))
    /\ gb' = [gb EXCEPT !.enabled = IF gb.writes = 0 THEN @ + 1 ELSE @,
                        !.since = @ + 1]
    /\ last' = Op("step", 0, 4)
    /\ UNCHANGED <<cpu, dma_watch, reload, ticks, overflow_checks>>

NextTap == SetUpTimer \/ ResetDiv \/ TapTick

SpecTap == InitTap /\ [][NextTap]_vars

\* The program has made its three writes and busy-waits.
BusyWaiting == gb.pc = "wait" /\ gb.writes = 0

\* C26 as stated: a program that writes 0x04 to 0xFF07, 0x00 to 0xFF05 and
\* 0x00 to 0xFF06 and then busy-waits sees TIMA go from 0 to 1 after
\* exactly 64 M-cycles of timer-enabled running.
C26_TimaAfter64 ==
    BusyWaiting =>
        /\ gb.enabled < 64 => TIMA(memory) = 0
        /\ gb.enabled = 64 => TIMA(memory) = 1

\* C26, amended: the program sees TIMA go from 0 to 1 when bit 9 of the
\* 16-bit counter falls, that is when the counter next reaches a multiple of
\* 1024: 256 - (counter mod 1024) / 4 M-cycles after the write to TIMA, and
\* every 256 M-cycles from then on; 256 M-cycles after the write to TAC when
\* the counter was 0 at that write.
C26_TimaAtTapFall ==
    /\ gb.pc \in {"tma", "wait"} /\ gb.writes = 0 =>
          TIMA(memory) = ((gb.clock0 % 1024) + 4 * gb.since) \div 1024
    /\ BusyWaiting /\ memory.timer.clock = 4 * gb.enabled =>
          TIMA(memory) = (IF gb.enabled < 256 THEN 0 ELSE 1)

\* 256 M-cycles after a write to TAC made with the counter at 0, TIMA has
\* just become 1.
C26_Witness ==
    /\ BusyWaiting /\ gb.enabled = 256
    /\ memory.timer.clock = 1024
    /\ TIMA(memory) = 1
    /\ last = Op("step", 0, 4)

\* C27: with TAC = 0x04 and starting right after a DIV reset, any sequence
\* of 256 writes of 0 to DIV in which fewer than 128 M-cycles of stepping
\* separate consecutive writes leaves TIMA at its initial value: the tap
\* bit is never 1 when a reset occurs.
C27_DivResets ==
    /\ [](gb.writes >= 1 /\ ~gb.late /\ gb.since < 128 =>
             TIMA(memory) = gb.initial)
    /\ [][ Writing(\hFF04) /\ gb.writes >= 1 /\ gb.since < 128 =>
             /\ (memory.timer.clock \div 512) % 2 = 0
             /\ ~gb'.late ]_vars

\* The 256th write to DIV, 127 M-cycles after the one before.
C27_Witness ==
    /\ gb.writes = MaxDivWrites /\ ~gb.late
    /\ last = Op("write8", \hFF04, 0)
    /\ TIMA(memory) = gb.initial /\ gb.initial = 1
    /\ gb.wide

(***************************************************************************)
(* SpecPad: the joypad register 0xFF00 under set_key_presses calls and CPU *)
(* writes (C29).  gb.select holds bits 5-4 of the latest write to 0xFF00.  *)
(***************************************************************************)
\* Keys held: none; Right; A; Right and A; Up and Start.
PadPresses == { \h00, \h01, \h10, \h11, \h84 }

\* Writes of the program: the four selections of 0xFF00, a selection of the
\* direction half with the low nibble set, and the acknowledgement of the
\* requests in IF.
PadWrites ==
    { <<\hFF00, v>> : v \in { \h00, \h10, \h20, \h30, \h2F } }
    \cup { <<\hFF0F, \h00>> }

InitPad ==
    /\ overflow_checks = FALSE
    /\ memory = MemoryNew(NoControllerCartridge(LoopRom))
    /\ cpu = CPU_new
    /\ dma_transfer = NoDma
    /\ panicked = FALSE
    /\ gb = [ select |-> 0 ]
    /\ last = Op("new", 0, 0)
    /\ dma_watch = NoWatch
    /\ reload = "none"
    /\ ticks = 0

PadWrite ==
    /\ ~panicked /\ ticks < MaxPadOps
    /\ \E w \in PadWrites :
        /\ SetBus(MemoryBus_write8(Bus, w[1], w[2]))
        /\ last' = Op("write8", w[1], w[2])
        /\ gb' = IF w[1] = \hFF00
                 THEN [gb EXCEPT !.select = (w[2] \div 16) % 4]
                 ELSE gb
    /\ ticks' = ticks + 1
    /\ UNCHANGED <<cpu, dma_watch, reload, overflow_checks>>

SetKeyPresses ==
    /\ ~panicked /\ ticks < MaxPadOps
    /\ \E presses \in PadPresses :
        /\ memory' = set_key_presses(memory, presses).m
        /\ last' = Op("set_key_presses", 0, presses)
    /\ ticks' = ticks + 1
    /\ UNCHANGED <<dma_transfer, cpu, panicked, gb, dma_watch, reload,
                   overflow_checks>>

NextPad == PadWrite \/ SetKeyPresses

SpecPad == InitPad /\ [][NextPad]_vars

P1(m) == Memory_read8(m, \hFF00)

\* Button k (0..3) of a half that register value p selects is held.
PressedSelected(m, p, k) ==
    \/ Bit(p, 4) = 0 /\ Bit(m.joypad, k) = 1
    \/ Bit(p, 5) = 0 /\ Bit(m.joypad, k + 4) = 1

\* The register as the protocol describes it.
PadRegister ==
    /\ Bit(P1(memory), 7) = 1 /\ Bit(P1(memory), 6) = 1
    /\ (P1(memory) \div 16) % 4 = gb.select
    /\ \A k \in 0..3 :
          Bit(P1(memory), k) = 0 <=> PressedSelected(memory, P1(memory), k)

\* The bit of some button goes from released to pressed in this step.
ButtonBitFalls ==
    \E k \in 0..3 : Bit(P1(memory), k) = 1 /\ Bit(P1(memory'), k) = 0

PadOperation ==
    last'.op = "set_key_presses" \/ Writing(\hFF00)

\* C29: after any sequence of set_key_presses calls and CPU writes to
\* 0xFF00, bits 7-6 of 0xFF00 are 1, bits 5-4 hold the last written select
\* lines, and bit k of the low nibble is 0 exactly when button k of a
\* selected half is pressed; IF bit 4 is requested exactly when some
\* selected button's bit goes from released (1) to pressed (0), and not
\* again while that button stays pressed.
C29_Joypad ==
    /\ []PadRegister
    /\ [][ PadOperation =>
             Bit(InterruptFlags(memory'), 4) =
                 (IF ButtonBitFalls THEN 1
                  ELSE Bit(InterruptFlags(memory), 4)) ]_vars

\* What the code does: the register holds what the protocol says, and
\* set_key_presses requests the interrupt on the falling bits; a CPU write
\* of v requests it when a bit set in v belongs to a held, selected button.
C29_JoypadRequestsOnWrittenBits ==
    /\ []PadRegister
    /\ [][ /\ last'.op = "set_key_presses" =>
                Bit(InterruptFlags(memory'), 4) =
                    (IF ButtonBitFalls THEN 1
                     ELSE Bit(InterruptFlags(memory), 4))
           /\ Writing(\hFF00) =>
                Bit(InterruptFlags(memory'), 4) =
                    (IF \E k \in 0..3 :
                           /\ Bit(last'.value, k) = 1
                           /\ PressedSelected(memory', P1(memory'), k)
                     THEN 1
                     ELSE Bit(InterruptFlags(memory), 4)) ]_vars

(***************************************************************************)
(* SpecWrap: CPU::step at the ends of the address space (C31), in a build  *)
(* with and in a build without overflow checks.  The cartridge has a       *)
(* controller, so that a write to 0x0000 is a register write.              *)
(***************************************************************************)
\* PUSH AF, POP AF, RST 0x00, RETI at 0xC000.
WrapPrograms ==
    { <<\hF5, \hF1>>, <<\hF1, \hF5>>, <<\hC7, \h00>>, <<\hD9, \h00>> }

WrapStackPointers == { \h0000, \h0001, \hFFFE, \hFFFF }

\* Opcodes found at 0xFFFF: NOP, LD A,d8, PUSH AF.
WrapOpcodes == { \h00, \h3E, \hF5 }

WrapMemory(program, ie) ==
    [ ProgramMemory(program, 0, 0) EXCEPT
        !.cartridge = ControllerCartridge(BankedRom("MBC1", 32, 1)),
        !.memory = ArraySet(ArraySet(@, \hFFFF, ie), \hFFFE, \h5A) ]

InitWrap ==
    /\ overflow_checks \in BOOLEAN
    /\ \E a \in SampleBytes, f \in { \h00, \hB0 } :
         \/ \E program \in WrapPrograms, sp \in WrapStackPointers :
              /\ memory = WrapMemory(program, \hA5)
              /\ cpu = [CpuAt(a, f, \h01) EXCEPT !.sp = sp]
         \/ \E opcode \in WrapOpcodes :
              /\ memory = WrapMemory(<<\h00, \h00>>, opcode)
              /\ cpu = [CpuAt(a, f, \h01) EXCEPT !.pc = \hFFFF]
    /\ InitCommon

SpecWrap == InitWrap /\ [][NextCpu]_vars

\* What the step now being taken does when PC and SP wrap.
WrapStep ==
    /\ last'.op = "cpu_step" => ~panicked'
    /\ Executing(\hF5) \/ Executing(\hC7) =>
          cpu'.sp = (cpu.sp + 65534) % 65536
    /\ Executing(\hF5) /\ cpu.sp = \h0001 =>
          Memory_read8(memory', \hFFFF) = cpu.f
    /\ Executing(\hF5) /\ cpu.sp = \h0000 =>
          /\ Memory_read8(memory', \hFFFE) = cpu.f
          /\ Memory_read8(memory', \hFFFF) = cpu.a
    /\ Executing(\hF1) \/ Executing(\hD9) =>
          cpu'.sp = (cpu.sp + 2) % 65536
    /\ Executing(\hF1) /\ cpu.sp = \hFFFF =>
          /\ cpu'.f = Memory_read8(memory, \hFFFF)
                         - (Memory_read8(memory, \hFFFF) % 16)
          /\ cpu'.a = Memory_read8(memory, \h0000)
    /\ Executing(\h00) /\ cpu.pc = \hFFFF => cpu'.pc = \h0000
    /\ Executing(\h3E) /\ cpu.pc = \hFFFF =>
          cpu'.pc = \h0001 /\ cpu'.a = Memory_read8(memory, \h0000)
    /\ Executing(\hF5) /\ cpu.pc = \hFFFF => cpu'.pc = \h0000

\* C31: PC and SP arithmetic wraps modulo 2^16 and never aborts: a fetch
\* that advances PC past 0xFFFF continues at 0x0000, a push with SP in
\* {0x0000, 0x0001} wraps SP to 0xFFFE/0xFFFF, a pop with SP in
\* {0xFFFE, 0xFFFF} wraps SP upward, and a 16-bit access at 0xFFFF uses
\* 0x0000 for its high byte.
C31_Wraps == [][WrapStep]_vars

\* What the code does: it wraps in a build without overflow checks.
C31_WrapsWithoutOverflowChecks == [][~overflow_checks => WrapStep]_vars

\* In a build with overflow checks every step that crosses an end of the
\* address space aborts.
C31_AbortsWithOverflowChecks ==
    [][ /\ overflow_checks /\ last'.op = "cpu_step"
        /\ \/ cpu.pc = \hFFFF
           \/ (Executing(\hF5) \/ Executing(\hC7)) /\ cpu.sp <= 1
           \/ (Executing(\hF1) \/ Executing(\hD9)) /\ cpu.sp >= \hFFFE
        => panicked' ]_vars

(***************************************************************************)
(* SpecHeader: CartridgeHeader::is_header_checksum_correct (C32) over the  *)
(* header bytes 0x0134..=0x014C, one turn of its loop per step.  gb.i is   *)
(* the address of the byte the loop takes next, gb.x the local x, gb.sum   *)
(* the sum of the bytes taken, gb.checksum the byte at 0x014D.             *)
(***************************************************************************)
\* Bytes a header is made of.
HeaderBytes == { \h00, \h4D, \hFF }

\* A variant that leaves out the 1 subtracted per byte.
checksum_step_without_one(x, y) == overflowing_sub(x, y).v

\* x = x.overflowing_sub(*y).0.overflowing_sub(1).0
checksum_step(x, y) == overflowing_sub(overflowing_sub(x, y).v, 1).v

InitHeader ==
    /\ overflow_checks = FALSE
    /\ memory = MemoryNew(NoControllerCartridge(LoopRom))
    /\ cpu = CPU_new
    /\ dma_transfer = NoDma
    /\ panicked = FALSE
    /\ gb = [ i |-> \h0134, x |-> 0, sum |-> 0, checksum |-> 0,
              accepted |-> FALSE ]
    /\ last = Op("new", 0, 0)
    /\ dma_watch = NoWatch
    /\ reload = "none"
    /\ ticks = 0

\* for y in &self.rom[0x0134..=0x014C]
SumHeaderByte ==
    /\ gb.i <= \h014C
    /\ \E y \in HeaderBytes :
          /\ gb' = [gb EXCEPT !.i = @ + 1, !.x = checksum_step(@, y),
                              !.sum = @ + y]
          /\ last' = Op("header_byte", gb.i, y)
    /\ UNCHANGED <<memory, dma_transfer, cpu, panicked, dma_watch, reload,
                   ticks, overflow_checks>>

\* self.header_checksum() == x; checksum is the byte at 0x014D.
CompareChecksum ==
    /\ gb.i = \h014D /\ last.op # "is_header_checksum_correct"
    /\ \E checksum \in 0..255 :
          /\ gb' = [gb EXCEPT !.checksum = checksum,
                              !.accepted = (checksum = gb.x)]
          /\ last' = Op("is_header_checksum_correct", \h014D, checksum)
    /\ UNCHANGED <<memory, dma_transfer, cpu, panicked, dma_watch, reload,
                   ticks, overflow_checks>>

NextHeader == SumHeaderByte \/ CompareChecksum

SpecHeader == InitHeader /\ [][NextHeader]_vars

\* C32 as stated: for any header accepted by is_header_checksum_correct,
\* the byte at 0x014D equals (-(sum of the bytes at 0x0134..=0x014C) - 19)
\* mod 256.
C32_Checksum19 ==
    gb.accepted => gb.checksum = (65536 - gb.sum - 19) % 256

\* C32, amended: for any header accepted by is_header_checksum_correct, the
\* byte at 0x014D equals (-(sum of the bytes at 0x0134..=0x014C) - 25) mod
\* 256, 25 (0x19) being the number of bytes summed; and every header whose
\* byte at 0x014D has that value is accepted.
C32_Checksum25 ==
    last.op = "is_header_checksum_correct" =>
        (gb.accepted <=> gb.checksum = (65536 - gb.sum - 25) % 256)

\* A header of 25 bytes that are not all alike has been accepted.
C32_Witness ==
    /\ gb.accepted /\ gb.i = \h014D
    /\ gb.sum = 12 * \h4D + 5 * \hFF
    /\ gb.checksum = (65536 - gb.sum - 25) % 256

(***************************************************************************)
(* OAM DMA restart (C33), checked in SpecBus.                              *)
(***************************************************************************)
\* The transfer the watch follows began as a restart, from a page the
\* cartridge can read.
Restarted ==
    dma_watch.restart /\ ~(dma_watch.page >= \hA0 /\ dma_watch.page <= \hBF)

\* The new transfer copies from offset 0 after a countdown of 3 M-cycles,
\* and nothing else is copied.
RestartCopies ==
    Restarted =>
        /\ ~panicked
        /\ DmaCopiedSoFar
        /\ (dma_watch.age = 163 => DmaDone)

\* The step now being taken is a write to 0xFF46 during a transfer.
Restarting == Writing(\hFF46) /\ dma_transfer.some

\* C33: a write to 0xFF46 while a transfer is in progress preempts it: no
\* further byte of the old source is copied, the new transfer starts at
\* offset 0 with a fresh 3-M-cycle countdown and then copies all 160 bytes;
\* its active flag starts equal to the old transfer's active flag, so a
\* blocked bus stays blocked until the new transfer completes and a bus not
\* yet blocked is not blocked before the new countdown ends.
C33_Restart ==
    /\ []RestartCopies
    /\ [][ Restarting =>
             /\ dma_transfer'.pre_transfer_countdown = 3
             /\ is_active(dma_transfer') = is_active(dma_transfer) ]_vars

\* What the code does: every restarted transfer is active from the write on.
C33_RestartBlocksAtOnce ==
    /\ []RestartCopies
    /\ [][ Restarting =>
             /\ dma_transfer'.pre_transfer_countdown = 3
             /\ is_active(dma_transfer') ]_vars
    /\ [](Restarted /\ dma_watch.age < 163 => is_active(dma_transfer))

(***************************************************************************)
(* The order of one GameBoy::step (C34), in Spec.                          *)
(***************************************************************************)
\* The bus as the step now being taken leaves it.
BusAfter ==
    [memory |-> memory', dma_transfer |-> dma_transfer', panic |-> panicked']

\* The step now being taken advanced the timer by `cycles` T-cycles and
\* requested the timer interrupt exactly when Timer::step returned true.
TimerAdvanced(cycles) ==
    /\ memory'.timer = Timer_step(memory.timer, cycles).t
    /\ Timer_step(memory.timer, cycles).interrupt
           => Bit(InterruptFlags(memory'), 2) = 1
    /\ ~Timer_step(memory.timer, cycles).interrupt
           => InterruptFlags(memory') = InterruptFlags(memory)

\* C34: one GameBoy::step runs in this order: CPU::step decodes and executes
\* the instruction; then MemoryBus::step advances OAM DMA and the timer by
\* exactly the T-cycles CPU::step returned; only then handle_interrupts runs,
\* once; when it serviced an interrupt the step's count grows by 20 and
\* MemoryBus::step is given those 20 T-cycles, and nothing else of the step
\* follows.  A timer interrupt raised by the advance is therefore serviced
\* in the same step when IME is set.  Whenever a step has returned, the
\* T-cycles given to the bus so far are the T-cycles the steps reported.
C34_Lockstep ==
    [][ /\ gb.pc = "cpu_step" /\ last'.op = "cpu_step"
               => /\ gb'.pc = "bus_step"
                  /\ gb'.cycles = CPU_step(cpu, Bus).cycles
                  /\ memory'.timer.clock = memory.timer.clock
                  /\ gb'.fed = gb.fed /\ gb'.reported = gb.reported
        /\ gb.pc = "bus_step"
               => /\ last' = Op("step", 0, gb.cycles)
                  /\ gb'.pc = "handle_interrupts"
                  /\ cpu' = cpu /\ gb'.cycles = gb.cycles
                  /\ TimerAdvanced(gb.cycles)
                  /\ gb'.fed = gb.fed + gb.cycles
                  /\ gb'.reported = gb.reported
        /\ ( gb.pc = "bus_step" /\ cpu.ime
             /\ Timer_step(memory.timer, gb.cycles).interrupt
             /\ Bit(InterruptEnable(memory), 2) = 1 )
               => /\ CPU_handle_interrupts(cpu', BusAfter).serviced
                  /\ ~IsPending(memory', 0) /\ ~IsPending(memory', 1)
                         => CPU_handle_interrupts(cpu', BusAfter).cpu.pc = \h50
        /\ gb.pc = "handle_interrupts"
               => /\ last'.op = "handle_interrupts"
                  /\ memory'.timer = memory.timer
                  /\ gb'.fed = gb.fed
                  /\ IF CPU_handle_interrupts(cpu, Bus).serviced
                     THEN /\ gb'.pc = "irq_bus_step"
                          /\ gb'.cycles = gb.cycles + 20
                          /\ gb'.reported = gb.reported
                     ELSE /\ gb'.pc = "cpu_step"
                          /\ gb'.cycles = gb.cycles
                          /\ gb'.reported = gb.reported + gb.cycles
        /\ gb.pc = "irq_bus_step"
               => /\ last' = Op("step", 0, 20)
                  /\ gb'.pc = "cpu_step"
                  /\ cpu' = cpu
                  /\ TimerAdvanced(20)
                  /\ gb'.fed = gb.fed + 20
                  /\ gb'.reported = gb.reported + gb.cycles
        /\ gb'.pc = "cpu_step" /\ ~panicked' => gb'.fed = gb'.reported ]_vars

\* The timer interrupt was raised by the advance of a 4-cycle step of the
\* halted CPU with IME set (had it been requested before, the step before
\* would have serviced it) and has been serviced in that step: PC is the
\* timer vector, the return address the NOP after the HALT, the step's count
\* 4 + 20, and the 20 T-cycles are about to be given to the bus.
C34_Witness ==
    /\ last.op = "handle_interrupts" /\ gb.pc = "irq_bus_step"
    /\ is_timer_enabled(memory.timer)
    /\ cpu.pc = \h50 /\ ~cpu.ime /\ ~cpu.halt
    /\ MemoryBus_read16(Bus, cpu.sp) = \h0161
    /\ gb.cycles = 24
    /\ gb.fed = gb.reported + 4

(***************************************************************************)
(* SpecBank: register writes of any order and number to the controllers of *)
(* banked cartridges, and accesses to their RAM (C35-C37).  gb holds the   *)
(* value last written to each of the register ranges 0x2000-0x3FFF,        *)
(* 0x4000-0x5FFF and 0x6000-0x7FFF (0 before any write); the RAM-enable    *)
(* register is kept by the controller as written (ram_enabled).  ticks     *)
(* counts the bytes stored in cartridge RAM.                               *)
(***************************************************************************)
MaxRamStores == 1    \* bytes stored in cartridge RAM in SpecBank

BankCartridges ==
    { ControllerCartridge(BankedRom("MBC1", 32, 1)),
      ControllerCartridge(BankedRom("MBC1", 8, 4)),
      ControllerCartridge(BankedRom("MBC1", 64, 0)),
      ControllerCartridge(BankedRom("MBC2", 16, 0)),
      ControllerCartridge(BankedRom("MBC3", 8, 4)),
      ControllerCartridge(BankedRom("MBC3", 64, 1)),
      ControllerCartridge(BankedRom("MBC5", 8, 1)),
      ControllerCartridge(BankedRom("MBC5", 512, 16)) }

\* One address in each register range (0x2100 has bit 8 set: the ROM bank
\* register of MBC2; 0x3000 is the ninth bank bit of MBC5).
RegisterAddresses == { \h0000, \h2100, \h3000, \h4000, \h6000 }

RegisterValues == { \h00, \h01, \h03, \h0A, \h10 }

BankRamProbes == { \hA000, \hBFFF }

InitBank ==
    /\ overflow_checks = FALSE
    /\ \E c \in BankCartridges :
          memory = [MemoryNew(c) EXCEPT !.boot_rom = FALSE]
    /\ cpu = CPU_new
    /\ dma_transfer = NoDma
    /\ panicked = FALSE
    /\ gb = [bank1 |-> 0, bank2 |-> 0, mode |-> 0]
    /\ last = Op("new", 0, 0)
    /\ dma_watch = NoWatch
    /\ reload = "none"
    /\ ticks = 0

RegisterWritten(address, value) ==
    IF address <= \h1FFF THEN gb
    ELSE IF address <= \h3FFF THEN [gb EXCEPT !.bank1 = value]
    ELSE IF address <= \h5FFF THEN [gb EXCEPT !.bank2 = value]
    ELSE [gb EXCEPT !.mode = value]

RegisterWrite ==
    /\ ~panicked
    /\ \E address \in RegisterAddresses, value \in RegisterValues :
        /\ SetBus(MemoryBus_write8(Bus, address, value))
        /\ gb' = RegisterWritten(address, value)
        /\ last' = Op("write8", address, value)
    /\ UNCHANGED <<cpu, dma_watch, reload, ticks, overflow_checks>>

RamRead ==
    /\ ~panicked
    /\ \E address \in BankRamProbes :
          Returned(address, MemoryBus_read8(Bus, address))
    /\ UNCHANGED <<memory, dma_transfer, cpu, gb, dma_watch, reload, ticks,
                   overflow_checks>>

RamStore ==
    /\ ~panicked /\ ticks < MaxRamStores
    /\ \E address \in BankRamProbes :
        /\ SetBus(MemoryBus_write8(Bus, address, \h5A))
        /\ last' = Op("write8", address, \h5A)
    /\ ticks' = ticks + 1
    /\ UNCHANGED <<cpu, gb, dma_watch, reload, overflow_checks>>

NextBank == RegisterWrite \/ RamRead \/ RamStore

SpecBank == InitBank /\ [][NextBank]_vars

(***************************************************************************)
(* MBC1 as its four registers (C35).                                       *)
(***************************************************************************)
\* The registers of the MBC1 chip as last written: BANK1 (5 bits, 0 reads
\* as 1), BANK2 (2 bits) and MODE (1 = ADVANCED).
Bank1 == BankNumber(gb.bank1, 5)

Bank2 == gb.bank2 % 4

IsAdvanced == gb.mode = 1

\* The banks those registers select on a cartridge with the ROM and RAM
\* sizes of c.
SelectedRom0(c) ==
    IF IsAdvanced /\ c.rom.num_rom_banks >= 64
    THEN (Bank2 * 32) % c.rom.num_rom_banks
    ELSE 0

SelectedRomX(c) == (Bank2 * 32 + Bank1) % c.rom.num_rom_banks

SelectedRam(c) ==
    IF IsAdvanced /\ c.rom.num_ram_banks > 1
    THEN Bank2 % c.rom.num_ram_banks
    ELSE 0

IsAnyMbc1(c) == c.memory_controller = "MBC1"

\* C35: on an MBC1 cartridge (no multicart), after any writes to
\* 0x0000-0x7FFF the banks that reads use are those selected by the values
\* last written to BANK1, BANK2 and MODE: a read of 0x0000 returns byte 0 of
\* ROM bank 0 in SIMPLE mode and of bank BANK2 << 5 in ADVANCED mode on a ROM
\* of 1 MiB or more, a read of 0x4000 byte 0 of bank (BANK2 << 5) | BANK1
\* masked to the number of banks, and the RAM bank is 0 in SIMPLE mode and
\* BANK2 in ADVANCED mode with more than 8 KiB of RAM -- whether BANK2 was
\* written before or after MODE.
C35_Mbc1Registers ==
    IsAnyMbc1(memory.cartridge) /\ ~panicked =>
        /\ MemoryBus_read8(Bus, \h0000)
               = BankTag(SelectedRom0(memory.cartridge))
        /\ MemoryBus_read8(Bus, \h4000)
               = BankTag(SelectedRomX(memory.cartridge))
        /\ ram_bank_offset("MBC1", memory.cartridge.mbc)
               = \h2000 * SelectedRam(memory.cartridge)

\* What MBC1::register_write8 keeps instead: the ROM0 bank and the RAM bank
\* follow a write to 0x4000-0x5FFF only when it is made in ADVANCED mode
\* (gb.mode = 1 at the write), and a write of MODE leaves both as they are
\* (ROM0 bank: 0 after a write of SIMPLE).  The ROMX bank is always the one
\* the registers select.
C35_BanksFollowWriteOrder ==
    [][ IsAnyMbc1(memory.cartridge) /\ ~panicked' =>
          /\ MemoryBus_read8(BusAfter, \h4000)
                 = BankTag(((gb'.bank2 % 4) * 32 + BankNumber(gb'.bank1, 5))
                           % memory.cartridge.rom.num_rom_banks)
          /\ last'.op = "write8" /\ last'.address = \h6000 =>
                /\ memory'.cartridge.mbc.ram_bank
                       = memory.cartridge.mbc.ram_bank
                /\ memory'.cartridge.mbc.rom0_bank
                       = IF last'.value = 0 THEN 0
                         ELSE memory.cartridge.mbc.rom0_bank
          /\ last'.op = "write8" /\ last'.address = \h4000 /\ gb.mode = 0 =>
                /\ memory'.cartridge.mbc.ram_bank
                       = memory.cartridge.mbc.ram_bank
                /\ memory'.cartridge.mbc.rom0_bank
                       = memory.cartridge.mbc.rom0_bank ]_vars

(***************************************************************************)
(* Selected ROM banks exist (C36).                                         *)
(***************************************************************************)
\* The banks the controller maps at 0x0000-0x3FFF and at 0x4000-0x7FFF.
Rom0Bank(c) ==
    IF IsAnyMbc1(c) THEN rom0_bank_offset(c.mbc) \div \h4000 ELSE 0

RomXBank(c) == rom_bank_offset(c.mbc) \div \h4000

\* The write is one to the ROM bank number register of MBC1, MBC2 or MBC3.
IsRomBankWrite(c, op) ==
    /\ op.op = "write8" /\ op.address >= \h2000 /\ op.address <= \h3FFF
    /\ c.memory_controller \in {"MBC1", "MBC2", "MBC3"}
    /\ IsMbc2(c) => Bit(op.address, 8) = 1

\* The bits of the ROM bank number register: 5, 4 and 7.
RomBankBits(c) ==
    CASE c.memory_controller = "MBC1" -> 5
      [] c.memory_controller = "MBC2" -> 4
      [] c.memory_controller = "MBC3" -> 7

\* C36: for MBC1, MBC2, MBC3 and MBC5, after any register writes the banks
\* mapped at 0x0000-0x3FFF and at 0x4000-0x7FFF are below the number of ROM
\* banks the header declares, so every read of the ROM is inside the image;
\* for MBC1, MBC2 and MBC3 a bank number of 0 becomes 1 before it is masked
\* to the number of banks (a value that is not 0 but is masked to 0 selects
\* bank 0).
C36_RomBanksExist ==
    /\ [](~panicked =>
            /\ Rom0Bank(memory.cartridge) < memory.cartridge.rom.num_rom_banks
            /\ RomXBank(memory.cartridge) < memory.cartridge.rom.num_rom_banks
            /\ \A a \in { \h0000, \h3FFF, \h4000, \h7FFF } :
                   MemoryBus_read8(Bus, a) # Panic)
    /\ [][ IsRomBankWrite(memory.cartridge, last') /\ ~panicked' =>
             RomXBank(memory'.cartridge) % (2^RomBankBits(memory.cartridge))
                 = ( BankNumber(last'.value, RomBankBits(memory.cartridge))
                     % memory.cartridge.rom.num_rom_banks )
                   % (2^RomBankBits(memory.cartridge)) ]_vars

\* 0x10 has been written to the ROM bank number of an MBC3 cartridge with 8
\* banks: it is not 0, so it is not replaced by 1, and masked to bank 0.
C36_Witness ==
    /\ memory.cartridge.memory_controller = "MBC3"
    /\ memory.cartridge.rom.num_rom_banks = 8
    /\ last = Op("write8", \h2100, \h10)
    /\ RomXBank(memory.cartridge) = 0
    /\ MemoryBus_read8(Bus, \h4000) = BankTag(0)

(***************************************************************************)
(* Selected RAM banks exist (C37).                                         *)
(***************************************************************************)
HasBankedRam(c) == c.memory_controller \in {"MBC1", "MBC3", "MBC5"}

RamBank(c) == ram_bank_offset(c.memory_controller, c.mbc) \div \h2000

\* No read and no write of the RAM area fails.
RamAccessible ==
    \A a \in BankRamProbes :
        /\ MemoryBus_read8(Bus, a) # Panic
        /\ ~MemoryBus_write8(Bus, a, \h5A).panic

\* C37: for MBC1, MBC3 and MBC5 the selected RAM bank is below the number of
\* RAM banks the header declares, so with RAM enabled every read and write
\* of 0xA000-0xBFFF is inside the allocated RAM and none fails, also on a
\* cartridge that declares no RAM.
C37_RamBanksExist ==
    HasBankedRam(memory.cartridge) /\ ~panicked =>
        /\ memory.cartridge.rom.num_ram_banks > 0
               => RamBank(memory.cartridge)
                      < memory.cartridge.rom.num_ram_banks
        /\ RamAccessible

\* What holds instead: MBC1 masks the RAM bank to the declared number, and
\* on MBC1 with RAM, and on any controller while the selected bank exists
\* or RAM is disabled, no access fails.
C37_Mbc1RamBankExists ==
    HasBankedRam(memory.cartridge) /\ ~panicked =>
        /\ IsAnyMbc1(memory.cartridge)
           /\ memory.cartridge.rom.num_ram_banks > 0
               => /\ RamBank(memory.cartridge)
                         < memory.cartridge.rom.num_ram_banks
                  /\ RamAccessible
        /\ \/ ~RamEnabled(memory.cartridge)
           \/ RamBank(memory.cartridge) < memory.cartridge.rom.num_ram_banks
               => RamAccessible

\* With RAM enabled and a bank selected that the cartridge does not have,
\* every access of 0xA000-0xBFFF fails.
C37_MissingBankFails ==
    ( /\ HasBankedRam(memory.cartridge) /\ ~panicked
      /\ RamEnabled(memory.cartridge)
      /\ RamBank(memory.cartridge) >= memory.cartridge.rom.num_ram_banks )
        => \A a \in BankRamProbes :
               /\ MemoryBus_read8(Bus, a) = Panic
               /\ MemoryBus_write8(Bus, a, \h5A).panic

(***************************************************************************)
(* STAT interrupt on a mode change (C38), in SpecFrame.                    *)
(***************************************************************************)
\* The STAT enable bit of the mode: bit 3 HBlank, 4 VBlank, 5 SearchingOAM;
\* the mode Transferring has none.
ModeEnabled(flags, mode) ==
    CASE mode = LcdMode_HBlank -> Bit(flags, 3) = 1
      [] mode = LcdMode_VBlank -> Bit(flags, 4) = 1
      [] mode = LcdMode_SearchingOAM -> Bit(flags, 5) = 1
      [] OTHER -> FALSE

\* C38: every set_lcd_mode requests the STAT interrupt (sets IF bit 1, and
\* no other bit of IF) exactly when the STAT enable bit of the mode entered
\* is set, never on entering Transferring; it puts the mode into bits 1-0 of
\* STAT and leaves bits 2-7 as they are.  Bit 7 of STAT is 1 in every
\* reachable state.
C38_StatOnMode ==
    /\ [](Bit(LcdStatusFlags(memory), 7) = 1)
    /\ [][ last'.op = "set_lcd_mode" =>
             /\ InterruptFlags(memory')
                    = IF ModeEnabled(LcdStatusFlags(memory), last'.value)
                      THEN BitOr(InterruptFlags(memory), 2)
                      ELSE InterruptFlags(memory)
             /\ LcdStatusFlags(memory')
                    = BitAnd(LcdStatusFlags(memory), \hFC) + last'.value
             /\ last'.value = LcdMode_TransferringDataToLcdController
                    => InterruptFlags(memory') = InterruptFlags(memory) ]_vars

\* STAT holds 0x10 (VBlank enable only) and line 144 has entered VBlank:
\* that change has requested the STAT interrupt (the VBlank interrupt is not
\* requested yet); no change to SearchingOAM, Transferring or HBlank on the
\* 144 lines before did.
C38_Witness ==
    /\ last = Op("set_lcd_mode", \hFF41, LcdMode_VBlank)
    /\ gb.frames = 0 /\ LY = 144 /\ lyc(memory) = 1
    /\ LcdStatusFlags(memory) = \h91
    /\ InterruptFlags(memory) = \hE2

(***************************************************************************)
(* SpecCycles: the T-cycles CPU::step returns for every opcode, and what   *)
(* MemoryBus::step and Timer::step do with them (C39).  gb.byte is the     *)
(* opcode (the byte after 0xCB when gb.prefixed), cpu.f holds the flags    *)
(* the jump conditions test; an OAM DMA transfer has just been started.    *)
(* Only the count is followed: the effect of the instruction on registers  *)
(* and memory is not.                                                      *)
(***************************************************************************)
\* FetchCycles of the operand types; r, to and from are the 3-bit register
\* fields of the opcode, 0b110 standing for (HL).
ArithmeticOperand_cycles(r) == IF r = 6 THEN 4 ELSE 0

NonDirectArithmeticOperand_cycles(r) == IF r = 6 THEN 8 ELSE 0

LoadByteTarget_cycles(to) == IF to = 6 THEN 4 ELSE 0

LoadByteSource_cycles(from) == IF from = 6 THEN 4 ELSE 0

\* A variant that takes the jump when the condition fails.
test_jump_condition_inverted(condition, f) ==
    CASE condition = "Unconditional" -> TRUE
      [] condition = "NZ" -> Bit(f, 7) = 1
      [] condition = "Z" -> Bit(f, 7) = 0
      [] condition = "NC" -> Bit(f, 4) = 1
      [] condition = "C" -> Bit(f, 4) = 0

test_jump_condition(condition, f) ==
    CASE condition = "Unconditional" -> TRUE
      [] condition = "NZ" -> Bit(f, 7) = 0
      [] condition = "Z" -> Bit(f, 7) = 1
      [] condition = "NC" -> Bit(f, 4) = 0
      [] condition = "C" -> Bit(f, 4) = 1

\* The JumpCondition from_byte_nonprefixed gives JR, JP, CALL and RET.
JumpCondition(instruction_byte) ==
    IF instruction_byte \in { \h18, \hC3, \hCD, \hC9 } THEN "Unconditional"
    ELSE CASE (instruction_byte \div 8) % 4 = 0 -> "NZ"
           [] (instruction_byte \div 8) % 4 = 1 -> "Z"
           [] (instruction_byte \div 8) % 4 = 2 -> "NC"
           [] (instruction_byte \div 8) % 4 = 3 -> "C"

\* What execute returns for the arithmetic on A: opcodes 0x80-0xBF take the
\* operand of the low three bits, 0xC6-0xFE the byte that follows (D8).
\* ADC returns 8 whatever the operand.
ArithmeticCycles(instruction_byte, operand_cycles) ==
    IF (instruction_byte \div 8) % 8 = 1 THEN 8 ELSE operand_cycles + 4

\* What execute returns for the instruction from_byte_prefixed decodes.
PrefixedCycles(instruction_byte) ==
    NonDirectArithmeticOperand_cycles(instruction_byte % 8) + 8

\* What execute returns for the instruction from_byte_nonprefixed decodes
\* from the opcodes 0x00-0x3F.
LowCycles(b, f) ==
    CASE b = \h00 -> 4                                          \* NOP
      [] b % 8 = 6 -> 4 + 4 + LoadByteTarget_cycles(b \div 8)   \* LD r,d8
      [] b % 16 = 1 -> 4 + 8                                    \* LD rr,d16
      [] b % 16 = 3 \/ b % 16 = 11 -> 8                         \* INC/DEC rr
      [] b % 8 = 4 \/ b % 8 = 5 ->                              \* INC/DEC r
             4 + NonDirectArithmeticOperand_cycles(b \div 8)
      [] b % 16 = 9 -> 8                                        \* ADD HL,rr
      [] b \in { \h02, \h12, \h22, \h32 } -> 0 + 8              \* LD (rr),A
      [] b = \h08 -> 20                                         \* LD (a16),SP
      [] b \in { \h0A, \h1A, \h2A, \h3A } -> 0 + 8              \* LD A,(rr)
      [] b \in { \h07, \h17, \h0F, \h1F } -> 4           \* RLCA RLA RRCA RRA
      [] b \in { \h18, \h20, \h28, \h30, \h38 } ->              \* JR
             IF test_jump_condition(JumpCondition(b), f) THEN 12 ELSE 8
      [] b \in { \h27, \h2F, \h37, \h3F } -> 4              \* DAA CPL SCF CCF

\* ... from the opcodes 0xC0-0xFF.
HighCycles(b, f) ==
    CASE b \in { \hC1, \hD1, \hE1, \hF1 } -> 12                 \* POP
      [] b \in { \hC5, \hD5, \hE5, \hF5 } -> 16                 \* PUSH
      [] b \in { \hC2, \hC3, \hCA, \hD2, \hDA } ->              \* JP
             IF test_jump_condition(JumpCondition(b), f) THEN 16 ELSE 12
      [] b \in { \hCD, \hC4, \hCC, \hD4, \hDC } ->              \* CALL
             IF test_jump_condition(JumpCondition(b), f) THEN 6 * 4 ELSE 3 * 4
      [] b % 8 = 7 -> 16                                        \* RST
      [] b \in { \hC9, \hC0, \hC8, \hD0, \hD8 } ->              \* RET
             IF test_jump_condition(JumpCondition(b), f) THEN 5 * 4 ELSE 2 * 4
      [] b = \hD9 -> 16                                         \* RETI
      [] b \in { \hE0, \hF0 } -> 8 + 4                          \* LDH (a8)
      [] b \in { \hE2, \hF2 } -> 4 + 4                          \* LDH (C)
      [] b \in { \hF3, \hFB } -> 4                              \* DI EI
      [] b = \hF8 -> 12                                         \* LD HL,SP+e
      [] b = \hF9 -> 0 + 8                                      \* LD SP,HL
      [] b % 8 = 6 -> ArithmeticCycles(b, 4)                    \* ADD A,d8 ..
      [] b = \hE8 -> 16                                         \* ADD SP,e
      [] b = \hE9 -> 4                                          \* JP HL
      [] b \in { \hEA, \hFA } -> 8 + 8                          \* LD (a16),A

\* Instruction::from_byte followed by execute, for a decodable opcode.
InstructionCycles(prefixed, b, f) ==
    IF prefixed THEN PrefixedCycles(b)
    ELSE IF b <= \h3F THEN LowCycles(b, f)
    ELSE IF b = \h76 THEN 4                                     \* HALT
    ELSE IF b <= \h7F THEN                                      \* LD r,r'
        4 + LoadByteSource_cycles(b % 8)
          + LoadByteTarget_cycles((b \div 8) % 8)
    ELSE IF b <= \hBF THEN
        ArithmeticCycles(b, ArithmeticOperand_cycles(b % 8))
    ELSE HighCycles(b, f)

\* The number of update_timer calls of Timer::step(cycles): the loop
\* `while cycles > 0 { cycles -= 4; ... }` on a usize.  When cycles is not
\* a multiple of 4 the subtraction underflows: the step panics or the loop
\* goes on for 2^62 more rounds; either way it does not end after any
\* number of updates near cycles / 4 (Panic).
RECURSIVE TimerUpdates(_)
TimerUpdates(cycles) ==
    IF cycles = 0 THEN 0
    ELSE IF cycles < 4 THEN Panic
    ELSE IF TimerUpdates(cycles - 4) = Panic THEN Panic
    ELSE 1 + TimerUpdates(cycles - 4)

ConditionFlags == { \h00, \h80, \h10, \h90 }

InitCycles ==
    /\ overflow_checks = FALSE
    /\ memory = MemoryNew(NoControllerCartridge(LoopRom))
    /\ dma_transfer = OamDmaTransfer_new(\hC1, FALSE)
    /\ \E f \in ConditionFlags, halt \in BOOLEAN :
          cpu = [CPU_new EXCEPT !.f = f, !.halt = halt]
    /\ panicked = FALSE
    /\ \E prefixed \in BOOLEAN, byte \in 0..255 :
          \* the byte 0xCB itself is the prefix
          /\ prefixed \/ byte # \hCB
          /\ gb = [ pc |-> "cpu_step", prefixed |-> prefixed, byte |-> byte,
                    cycles |-> 0, updates |-> 0 ]
    /\ last = Op("new", 0, 0)
    /\ dma_watch = NoWatch
    /\ reload = "none"
    /\ ticks = 0

\* CPU::step: 4 when halted, a panic when the opcode does not decode.
CyclesReturned ==
    /\ gb.pc = "cpu_step" /\ ~panicked
    /\ IF cpu.halt
       THEN gb' = [gb EXCEPT !.pc = "bus_step", !.cycles = 4] /\ panicked' = FALSE
       ELSE IF ~gb.prefixed /\ gb.byte \in Undecodable
       THEN gb' = gb /\ panicked' = TRUE
       ELSE /\ gb' = [gb EXCEPT !.pc = "bus_step",
                        !.cycles = InstructionCycles(gb.prefixed, gb.byte, cpu.f)]
            /\ panicked' = FALSE
    /\ last' = Op("cpu_step", 0, gb.byte)
    /\ UNCHANGED <<memory, dma_transfer, cpu, dma_watch, reload, ticks,
                   overflow_checks>>

\* self.memory.step(cycles)
CyclesFed ==
    /\ gb.pc = "bus_step" /\ ~panicked
    /\ SetBus(MemoryBus_step(Bus, gb.cycles))
    /\ gb' = [gb EXCEPT !.pc = "handle_interrupts",
                        !.updates = TimerUpdates(gb.cycles)]
    /\ last' = Op("step", 0, gb.cycles)
    /\ UNCHANGED <<cpu, dma_watch, reload, ticks, overflow_checks>>

\* if self.handle_interrupts() { cycles += 5 * 4; ... }: serviced or not.
InterruptCycles ==
    /\ gb.pc = "handle_interrupts" /\ ~panicked
    /\ \E serviced \in BOOLEAN :
        /\ gb' = IF serviced
                 THEN [gb EXCEPT !.pc = "irq_bus_step", !.cycles = @ + 5 * 4]
                 ELSE [gb EXCEPT !.pc = "done"]
        /\ last' = Op("handle_interrupts", 0, IF serviced THEN 1 ELSE 0)
    /\ UNCHANGED <<memory, dma_transfer, cpu, panicked, dma_watch, reload,
                   ticks, overflow_checks>>

\* self.memory.step(5 * 4)
InterruptCyclesFed ==
    /\ gb.pc = "irq_bus_step" /\ ~panicked
    /\ SetBus(MemoryBus_step(Bus, 5 * 4))
    /\ gb' = [gb EXCEPT !.pc = "done", !.updates = @ + TimerUpdates(5 * 4)]
    /\ last' = Op("step", 0, 5 * 4)
    /\ UNCHANGED <<cpu, dma_watch, reload, ticks, overflow_checks>>

NextCycles ==
    \/ CyclesReturned
    \/ CyclesFed
    \/ InterruptCycles
    \/ InterruptCyclesFed

SpecCycles == InitCycles /\ [][NextCycles]_vars

\* The steps the OAM DMA transfer has made: its countdown, then its bytes.
DmaProgress(dma) == (3 - dma.pre_transfer_countdown) + (dma.address % 256)

\* The opcode is a conditional JR, JP, CALL or RET and its condition holds.
ConditionalOpcodes ==
    { \h20, \h28, \h30, \h38, \hC2, \hCA, \hD2, \hDA,
      \hC4, \hCC, \hD4, \hDC, \hC0, \hC8, \hD0, \hD8 }

BranchTaken ==
    LET zero == cpu.f \div 128 = 1
        carry == (cpu.f \div 16) % 2 = 1
    IN  CASE (gb.byte \div 8) % 4 = 0 -> ~zero
          [] (gb.byte \div 8) % 4 = 1 -> zero
          [] (gb.byte \div 8) % 4 = 2 -> ~carry
          [] (gb.byte \div 8) % 4 = 3 -> carry

\* The shorter and the longer count of the conditional instruction.
BranchCounts ==
    CASE gb.byte < \h40 -> <<8, 12>>             \* JR
      [] gb.byte % 8 = 2 -> <<12, 16>>           \* JP
      [] gb.byte % 8 = 4 -> <<12, 24>>           \* CALL
      [] gb.byte % 8 = 0 -> <<8, 20>>            \* RET

\* C39: for every decodable opcode and every state of the flags CPU::step
\* returns a positive multiple of 4 T-cycles, 4 when halted; servicing an
\* interrupt adds 20.  Timer::step therefore ends after exactly cycles / 4
\* updates (the counter advances by cycles) and MemoryBus::step makes
\* exactly cycles / 4 steps of the OAM DMA transfer.  A conditional JR, JP,
\* CALL or RET returns the longer of its two counts exactly when its
\* condition holds.
C39_Cycles ==
    [][ /\ last'.op = "cpu_step" /\ ~panicked' =>
             /\ gb'.cycles > 0 /\ gb'.cycles % 4 = 0
             /\ cpu.halt => gb'.cycles = 4
             /\ ~cpu.halt /\ ~gb.prefixed /\ gb.byte \in ConditionalOpcodes =>
                    gb'.cycles = BranchCounts[IF BranchTaken THEN 2 ELSE 1]
        /\ last'.op = "handle_interrupts" =>
             gb'.cycles = gb.cycles + (IF last'.value = 1 THEN 20 ELSE 0)
        /\ last'.op = "step" =>
             /\ last'.value > 0 /\ last'.value % 4 = 0
             /\ ~panicked'
             /\ gb'.updates - gb.updates = last'.value \div 4
             /\ memory'.timer.clock
                    = (memory.timer.clock + last'.value) % 65536
             /\ DmaProgress(dma_transfer') - DmaProgress(dma_transfer)
                    = last'.value \div 4 ]_vars

\* CALL NZ (0xC4) with Z clear was taken and an interrupt was serviced in
\* the same step: 24 + 20 T-cycles, 11 timer updates and 11 DMA steps.
C39_Witness ==
    /\ gb.pc = "done" /\ ~gb.prefixed /\ gb.byte = \hC4 /\ cpu.f = \h10
    /\ ~cpu.halt
    /\ gb.cycles = 44 /\ gb.updates = 11
    /\ memory.timer.clock = 44
    /\ DmaProgress(dma_transfer) = 11

(***************************************************************************)
(* SpecHalt: the run loop stepping a program that starts the timer and     *)
(* halts, for as long as it takes (C40).  The statements of GameBoy::step  *)
(* are those of Spec, without a bound on their number: stepping is         *)
(* followed until the CPU has left halt (and entered the handler when IME  *)
(* was set).  The loop of GameBoy::run calls step again and again, so a    *)
(* statement that can run does run: weak fairness of the step.             *)
(***************************************************************************)
HaltRoms ==
    [ entry : {"timer"}, sp : { \hD002 }, ie : { \h04 },
      tima : { \hF0, \hFE }, tac : { \h04, \h05 }, ei : { \hFB, \hF3 } ]

InitHalt ==
    /\ overflow_checks = FALSE
    /\ \E rom \in HaltRoms : memory = MemoryNew(NoControllerCartridge(rom))
    /\ cpu = CPU_new
    /\ InitCommon

\* The CPU has left halt: it is in the timer handler, or at the NOP after
\* the HALT.
Woken == ~cpu.halt /\ cpu.pc \in { \h0050, \h0161 }

HaltCpuStep ==
    /\ gb.pc = "cpu_step" /\ ~panicked /\ ~Woken
    /\ cpu.halt \/ Fetched = Panic \/ from_byte(Fetched) # "Other"
    /\ CpuStepped(CPU_step(cpu, Bus))
    /\ last' = Op("cpu_step", cpu.pc, Fetched)
    /\ UNCHANGED <<dma_watch, reload, ticks, overflow_checks>>

HaltBusStep ==
    /\ gb.pc = "bus_step" /\ ~panicked
    /\ SetBus(MemoryBus_step(Bus, gb.cycles))
    /\ gb' = [gb EXCEPT !.pc = "handle_interrupts", !.fed = @ + gb.cycles]
    /\ reload' = ReloadAfterTicks(reload, memory.timer, gb.cycles \div 4)
    /\ dma_watch' = WatchAfterStep(gb.cycles)
    /\ last' = Op("step", 0, gb.cycles)
    /\ UNCHANGED <<cpu, ticks, overflow_checks>>

HaltHandleInterrupts ==
    /\ gb.pc = "handle_interrupts" /\ ~panicked
    /\ Handled(CPU_handle_interrupts(cpu, Bus))
    /\ last' = Op("handle_interrupts", 0, 0)
    /\ UNCHANGED <<dma_watch, reload, ticks, overflow_checks>>

HaltIrqBusStep ==
    /\ gb.pc = "irq_bus_step" /\ ~panicked
    /\ SetBus(MemoryBus_step(Bus, 20))
    /\ gb' = [gb EXCEPT !.pc = "cpu_step", !.fed = @ + 20,
                        !.reported = @ + gb.cycles]
    /\ reload' = ReloadAfterTicks(reload, memory.timer, 5)
    /\ dma_watch' = WatchAfterStep(20)
    /\ last' = Op("step", 0, 20)
    /\ UNCHANGED <<cpu, ticks, overflow_checks>>

NextHalt ==
    \/ HaltCpuStep
    \/ HaltBusStep
    \/ HaltHandleInterrupts
    \/ HaltIrqBusStep

\* The rest of GameBoy::step after CPU::step: straight-line code that runs
\* to its end once the step has begun.
StepCompletes == HaltBusStep \/ HaltHandleInterrupts \/ HaltIrqBusStep

\* A step has begun and has not returned: StepCompletes is enabled.
StepRunning == gb.pc # "cpu_step" /\ ~panicked

\* The system loop keeps calling GameBoy::step (weak fairness of the CPU
\* step), and a step that has begun returns (weak fairness of
\* StepCompletes, with its enabling condition written as StepRunning).
SpecHalt ==
    /\ InitHalt /\ [][NextHalt]_vars
    /\ WF_vars(HaltCpuStep)
    /\ []<>(~StepRunning) \/ []<><<StepCompletes>>_vars

\* The CPU is halted with the timer running (TAC bit 2) and the timer
\* interrupt enabled (IE bit 2).
HaltedWaiting ==
    /\ cpu.halt /\ ~panicked
    /\ is_timer_enabled(memory.timer)
    /\ Bit(InterruptEnable(memory), 2) = 1

\* C40: the timer runs on while the CPU is halted: every step of the halted
\* CPU takes 4 T-cycles and advances the 16-bit counter by them, so when the
\* CPU is halted with TAC bit 2 and IE bit 2 set and the loop keeps
\* stepping, TIMA eventually overflows (when the timer interrupt is not
\* already requested), IF bit 2 is eventually set and the CPU eventually
\* leaves halt -- into the handler at 0x0050 when IME is set.
C40_TimerWakesHalt ==
    /\ [][ /\ cpu.halt /\ last'.op = "cpu_step" => gb'.cycles = 4
           /\ cpu.halt /\ gb.pc = "bus_step" /\ gb.cycles = 4 =>
                 memory'.timer.clock = (memory.timer.clock + 4) % 65536 ]_vars
    /\ (HaltedWaiting /\ Bit(InterruptFlags(memory), 2) = 0)
           ~> memory.timer.timer_overflow_scheduled
    /\ HaltedWaiting ~> (Bit(InterruptFlags(memory), 2) = 1)
    /\ HaltedWaiting ~> ~cpu.halt
    /\ (HaltedWaiting /\ cpu.ime)
           ~> (~cpu.halt /\ ~cpu.ime /\ cpu.pc = \h0050
               /\ MemoryBus_read16(Bus, cpu.sp) = \h0161)

\* With TAC = 0x04 (one TIMA tick in 256 M-cycles) and TIMA = 0xF0 the CPU
\* has been halted through 16 ticks of TIMA, was woken by the timer
\* interrupt with IME set and is in the handler.
C40_Witness ==
    /\ last.op = "handle_interrupts" /\ gb.pc = "irq_bus_step"
    /\ memory.timer.control % 8 = 4
    /\ memory.timer.clock > 15 * 1024
    /\ ~cpu.halt /\ ~cpu.ime /\ cpu.pc = \h0050
    /\ MemoryBus_read16(Bus, cpu.sp) = \h0161
    /\ Bit(InterruptFlags(memory), 2) = 0

====
